---- MODULE Spec2Model ----
(***************************************************************************)
(* listAlchemy, go-utils/permute: the permutation engine (PermutatorFast), *)
(* its output sink (a bufio.Writer under a mutex) and the exact counter    *)
(* (CalculateOutputLines).                                                 *)
(*                                                                         *)
(* Conventions.  A Go string is a sequence of one-character strings; a Go  *)
(* slice is a function on 0..len-1, so that pool indices, source indices   *)
(* and depths are the numbers the code uses.  A file is the sequence of    *)
(* lines its scanner yields.                                               *)
(***************************************************************************)
EXTENDS Integers, Sequences, FiniteSets, Bags, TLC

(***************************************************************************)
(* Bounds of the model.                                                    *)
(***************************************************************************)
MaxSources == 2
MaxDepth == 3
MaxTokens == 3
MaxSeps == 2
MaxEmit == 10

(***************************************************************************)
(* Slices.                                                                 *)
(***************************************************************************)
SliceLen(s) == Cardinality(DOMAIN s)

SliceAppend(s, x) ==
  [k \in 0..SliceLen(s) |-> IF k < SliceLen(s) THEN s[k] ELSE x]

MakeSlice(len, zero) == [k \in 0..(len - 1) |-> zero]

SlicesOver(S, lo, hi) == UNION {[0..(k - 1) -> S] : k \in lo..hi}

(***************************************************************************)
(* The file system.  A path is the text the program is given.  The files   *)
(* that exist, each as the lines its scanner yields (<<>> a blank line):   *)
(*   one.txt      foo                                                      *)
(*   two.txt      a, a blank line, b                                       *)
(*   blank.txt    one blank line                                           *)
(*   xy.txt       x, y             z.txt        z                          *)
(*   animals.txt  cat, dog         actions.txt  jump, run                  *)
(*   torn.txt     a, b, of which the read of b fails: the scanner yields a *)
(*                and stops with a non-nil Err()                           *)
(* gone.txt does not exist.                                                *)
(***************************************************************************)
NL == "\n"

OneTxt ==
  <<"o", "n", "e", ".", "t", "x", "t">>

TwoTxt ==
  <<"t", "w", "o", ".", "t", "x", "t">>

BlankTxt ==
  <<"b", "l", "a", "n", "k", ".", "t", "x", "t">>

XyTxt ==
  <<"x", "y", ".", "t", "x", "t">>

ZTxt ==
  <<"z", ".", "t", "x", "t">>

AnimalsTxt ==
  <<"a", "n", "i", "m", "a", "l", "s", ".", "t", "x", "t">>

ActionsTxt ==
  <<"a", "c", "t", "i", "o", "n", "s", ".", "t", "x", "t">>

TornTxt ==
  <<"t", "o", "r", "n", ".", "t", "x", "t">>

GoneTxt ==
  <<"g", "o", "n", "e", ".", "t", "x", "t">>

(* The files the runs of RunPermutatorFast on its own draw their sources from. *)
Paths == {OneTxt, TwoTxt, BlankTxt}

Files == Paths \cup {XyTxt, ZTxt, AnimalsTxt, ActionsTxt, TornTxt}

Exists(path) == path \in Files

FileLines(path) ==
  CASE path = OneTxt     -> << <<"f", "o", "o">> >>
    [] path = TwoTxt     -> << <<"a">>, <<>>, <<"b">> >>
    [] path = BlankTxt   -> << <<>> >>
    [] path = XyTxt      -> << <<"x">>, <<"y">> >>
    [] path = ZTxt       -> << <<"z">> >>
    [] path = AnimalsTxt -> << <<"c", "a", "t">>, <<"d", "o", "g">> >>
    [] path = ActionsTxt -> << <<"j", "u", "m", "p">>, <<"r", "u", "n">> >>
    [] path = TornTxt    -> << <<"a">> >>

(* scanner.Err() once Scan has returned false. *)
ScanErr(path) == path = TornTxt

SepTexts == { <<>>, <<"-">> }

Affixes == { [prefix |-> <<>>, suffix |-> <<>>],
             [prefix |-> <<"P", "R", "E", "-">>,
              suffix |-> <<"-", "S", "U", "F">>] }

SourceArg == [Path : Paths, Depth : 1..MaxDepth]

(***************************************************************************)
(* Errors are their texts; nil is the empty text.                          *)
(***************************************************************************)
NoErr == <<>>

OpenPrefix ==
  <<"o", "p", "e", "n", " ">>

NoSuchFile ==
  <<":", " ", "n", "o", " ", "s", "u", "c", "h", " ", "f", "i", "l", "e",
    " ", "o", "r", " ", "d", "i", "r", "e", "c", "t", "o", "r", "y">>

ErrorOpening ==
  <<"E", "R", "R", "O", "R", " ", "o", "p", "e", "n", "i", "n", "g", " ">>

(* The *PathError os.Open returns for a path that does not exist. *)
OsOpen(path) ==
  IF Exists(path) THEN NoErr ELSE OpenPrefix \o path \o NoSuchFile

(* Lines 236 and 283: fmt.Errorf("ERROR opening %s: %v", src.Path, err). *)
OpenError(path, cause) == ErrorOpening \o path \o <<":", " ">> \o cause

(***************************************************************************)
(* The load loop of RunPermutatorFast and of CalculateOutputLines: every   *)
(* non-blank line of every source, in order, with the index of its source; *)
(* one depth per source.  The loop returns at the first source that does   *)
(* not open; it never looks at scanner.Err().                              *)
(***************************************************************************)
(* As ScanLines, with a blank line taken as a token like any other. *)
RECURSIVE ScanLines_KeepBlank(_, _, _, _)
ScanLines_KeepBlank(lines, k, srcIdx, st) ==
  IF k > Len(lines) THEN st
  ELSE ScanLines_KeepBlank(lines, k + 1, srcIdx,
                           [st EXCEPT !.allItems = SliceAppend(@, lines[k]),
                                      !.srcOfItem = SliceAppend(@, srcIdx)])

(* Lines 239-246: the scanner's lines from the k-th on. *)
RECURSIVE ScanLines(_, _, _, _)
ScanLines(lines, k, srcIdx, st) ==
  IF k > Len(lines) THEN st
  ELSE IF lines[k] = <<>> THEN ScanLines(lines, k + 1, srcIdx, st)
  ELSE ScanLines(lines, k + 1, srcIdx,
                 [st EXCEPT !.allItems = SliceAppend(@, lines[k]),
                            !.srcOfItem = SliceAppend(@, srcIdx)])

(* As LoadOne, for a loop that goes on to the next source when one does
   not open. *)
LoadOne_SkipMissing(srcs, srcIdx, st) ==
  IF OsOpen(srcs[srcIdx].Path) # NoErr
  THEN [st EXCEPT !.srcDepths = SliceAppend(@, srcs[srcIdx].Depth)]
  ELSE LET scanned == ScanLines(FileLines(srcs[srcIdx].Path), 1, srcIdx, st)
       IN [scanned EXCEPT !.srcDepths = SliceAppend(@, srcs[srcIdx].Depth)]

(* Lines 233-249, one turn: the source of index srcIdx. *)
LoadOne(srcs, srcIdx, st) ==
  IF OsOpen(srcs[srcIdx].Path) # NoErr
  THEN [st EXCEPT !.err = OpenError(srcs[srcIdx].Path, OsOpen(srcs[srcIdx].Path))]
  ELSE LET scanned == ScanLines(FileLines(srcs[srcIdx].Path), 1, srcIdx, st)
       IN [scanned EXCEPT !.srcDepths = SliceAppend(@, srcs[srcIdx].Depth)]

RECURSIVE LoadFrom(_, _, _)
LoadFrom(srcs, srcIdx, st) ==
  IF srcIdx >= SliceLen(srcs) \/ st.err # NoErr THEN st
  ELSE LoadFrom(srcs, srcIdx + 1, LoadOne(srcs, srcIdx, st))

LoadSources(srcs) ==
  LoadFrom(srcs, 0, [allItems |-> <<>>, srcOfItem |-> <<>>, srcDepths |-> <<>>,
                     err |-> NoErr])

(***************************************************************************)
(* State.                                                                  *)
(*   sources .. noRepeats   the arguments of RunPermutatorFast             *)
(*   allItems, srcOfItem, srcDepths   the loaded pool (PermutatorFast)     *)
(*   buf, stdout   the bufio.Writer's buffer and the writer under it       *)
(*   mu            the task holding the mutex, NoTask when free            *)
(*   gpc, gi, wg   Generate: its position, its loop index, the WaitGroup   *)
(*   pc            per start index, where its task stands with the sink    *)
(*   task          per start index, the task's own state: path buffer,     *)
(*                 used array, maxDepth, dfs call stack and the string it  *)
(*                 passes to writeLine                                     *)
(*   emitted       per task, the (path, separator index, string) of every  *)
(*                 writeLine call so far, in call order                    *)
(*   argv, ai      the command line as the flag package splits it into     *)
(*                 (name, value), and the argument flag.Parse is at        *)
(*   showHelp, countOnly   main's other flags                              *)
(*   mpc           main's position; "none" when RunPermutatorFast or       *)
(*                 CalculateOutputLines is called on its own               *)
(*   ret           the (value, error) the function called last returned    *)
(*   stderr        the bytes written to os.Stderr                          *)
(*   exitCode      the exit status, NoExit while the process runs          *)
(*   spc, si, sused   the sequential permutator's generate: its position,  *)
(*                 its loop index i and its used array; "none" when the    *)
(*                 permutator is not run                                   *)
(*   sout          the calls of the permutator's output callback so far,   *)
(*                 in call order                                           *)
(*   builders      the text held by every strings.Builder made by          *)
(*                 p.pool.New so far                                       *)
(*   free          the builders lying in p.pool                            *)
(*   held          per task, the builder it took with Get and has not put  *)
(*                 back, NoBuilder when it has none                        *)
(***************************************************************************)
VARIABLES sources, seps, prefix, suffix, noRepeats,
          allItems, srcOfItem, srcDepths,
          buf, stdout, mu,
          gpc, gi, wg,
          pc, task, emitted,
          argv, ai, showHelp, countOnly, mpc, ret, stderr, exitCode,
          spc, si, sused, sout,
          builders, free, held

config == <<sources, seps, prefix, suffix, noRepeats,
            allItems, srcOfItem, srcDepths>>
sink == <<buf, stdout, mu>>
gen == <<gpc, gi, wg>>
tasks == <<pc, task, emitted>>
mainv == <<argv, ai, showHelp, countOnly, mpc, ret, stderr, exitCode>>
permv == <<spc, si, sused, sout>>
poolv == <<builders, free, held>>
vars == <<config, sink, gen, tasks, mainv, permv, poolv>>

NoTask == -1

NoExit == -1

(* A nil *big.Int. *)
NilInt == -1

NoRet == [val |-> NilInt, err |-> NoErr]

(* 64*1024, the size NewPermutatorFast gives the buffered writer. *)
BufSize == 65536

(* The receiver p of the engine's methods: the fields set by NewPermutatorFast. *)
ThisP ==
  [allItems |-> allItems, srcOfItem |-> srcOfItem, srcDepths |-> srcDepths,
   seps |-> seps, prefix |-> prefix, suffix |-> suffix, noRepeats |-> noRepeats]

(***************************************************************************)
(* dfs, lines 114-127: the string built for the first depth entries of     *)
(* the path and one separator, on a builder that has been Reset.           *)
(***************************************************************************)
RECURSIVE BuildRest(_, _, _, _, _)
BuildRest(p, pth, depth, sep, i) ==
  IF i >= depth THEN <<>>
  ELSE sep \o p.allItems[pth[i]] \o BuildRest(p, pth, depth, sep, i + 1)

(* As BuildLine, with the separator written before every token. *)
BuildLine_SepFirst(p, pth, depth, sep) ==
  p.prefix \o BuildRest(p, pth, depth, sep, 0) \o p.suffix

BuildLine(p, pth, depth, sep) ==
  p.prefix \o p.allItems[pth[0]] \o BuildRest(p, pth, depth, sep, 1) \o p.suffix

(***************************************************************************)
(* dfs as a machine.  A task's local state is                              *)
(*   [path, used, maxDepth, stack, at, line]                               *)
(* where stack holds one frame [depth, last, sep, next] per active call of *)
(* dfs (sep: the position of the separator loop, next: the loop variable   *)
(* of the extension loop) and at is the position in the top frame:         *)
(*   "enter"  line 107      "seps"  line 115      "write"  line 127        *)
(*   "check"  line 132      "loop"  line 137      "ret"    deferred, 111   *)
(*   "exit"   the outermost call has returned                              *)
(***************************************************************************)
Top(l) == l.stack[Len(l.stack)]

SetTop(l, f) == [l EXCEPT !.stack[Len(l.stack)] = f]

(* As DfsEnter, without the mark of line 110. *)
DfsEnter_NoMark(p, l) ==
  LET last == l.path[Top(l).depth - 1]
  IN [SetTop(l, [Top(l) EXCEPT !.last = last, !.sep = 0]) EXCEPT !.at = "seps"]

(* Lines 107-112: last, and the mark on entry. *)
DfsEnter(p, l) ==
  LET last == l.path[Top(l).depth - 1]
  IN [SetTop(l, [Top(l) EXCEPT !.last = last, !.sep = 0])
        EXCEPT !.used = IF p.noRepeats THEN [l.used EXCEPT ![last] = TRUE]
                        ELSE l.used,
               !.at = "seps"]

(* Lines 114-127: the next separator's line, handed to writeLine. *)
DfsSeps(p, l) ==
  IF Top(l).depth >= 1 /\ Top(l).sep < SliceLen(p.seps)
  THEN [l EXCEPT !.line = BuildLine(p, l.path, Top(l).depth, p.seps[Top(l).sep]),
                 !.at = "write"]
  ELSE [l EXCEPT !.at = "check"]

(* Lines 127-129: writeLine has returned; the builder goes back, next separator. *)
DfsWritten(p, l) ==
  [SetTop(l, [Top(l) EXCEPT !.sep = @ + 1]) EXCEPT !.at = "seps"]

(* As DfsCheck, with the extension loop starting at index 1. *)
DfsCheck_SkipFirst(p, l) ==
  IF Top(l).depth = l.maxDepth
  THEN [l EXCEPT !.at = "ret"]
  ELSE [SetTop(l, [Top(l) EXCEPT !.next = 1]) EXCEPT !.at = "loop"]

(* As DfsCheck, with the call returning only once depth is past maxDepth. *)
DfsCheck_PastDepth(p, l) ==
  IF Top(l).depth > l.maxDepth
  THEN [l EXCEPT !.at = "ret"]
  ELSE [SetTop(l, [Top(l) EXCEPT !.next = 0]) EXCEPT !.at = "loop"]

(* Lines 132-136. *)
DfsCheck(p, l) ==
  IF Top(l).depth = l.maxDepth
  THEN [l EXCEPT !.at = "ret"]
  ELSE [SetTop(l, [Top(l) EXCEPT !.next = 0]) EXCEPT !.at = "loop"]

(* As DfsLoop, without the test of line 138. *)
DfsLoop_NoSkip(p, l) ==
  LET f == Top(l) IN
  IF f.next >= SliceLen(p.allItems) THEN [l EXCEPT !.at = "ret"]
  ELSE [l EXCEPT !.path[f.depth] = f.next,
                 !.stack = Append(@, [depth |-> f.depth + 1, last |-> 0,
                                       sep |-> 0, next |-> 0]),
                 !.at = "enter"]

(* As DfsLoop, with the extension loop going down from the last index. *)
DfsLoop_Descending(p, l) ==
  LET f   == Top(l)
      idx == SliceLen(p.allItems) - 1 - f.next
  IN IF f.next >= SliceLen(p.allItems) THEN [l EXCEPT !.at = "ret"]
     ELSE IF p.noRepeats /\ l.used[idx]
     THEN SetTop(l, [f EXCEPT !.next = @ + 1])
     ELSE [l EXCEPT !.path[f.depth] = idx,
                    !.stack = Append(@, [depth |-> f.depth + 1, last |-> 0,
                                          sep |-> 0, next |-> 0]),
                    !.at = "enter"]

(* Lines 137-143: one turn of the extension loop. *)
DfsLoop(p, l) ==
  LET f == Top(l) IN
  IF f.next >= SliceLen(p.allItems) THEN [l EXCEPT !.at = "ret"]
  ELSE IF p.noRepeats /\ l.used[f.next]
  THEN SetTop(l, [f EXCEPT !.next = @ + 1])
  ELSE [l EXCEPT !.path[f.depth] = f.next,
                 !.stack = Append(@, [depth |-> f.depth + 1, last |-> 0,
                                       sep |-> 0, next |-> 0]),
                 !.at = "enter"]

(* As DfsReturn, without the deferred unmark of line 111. *)
DfsReturn_NoUnmark(p, l) ==
  LET rest == SubSeq(l.stack, 1, Len(l.stack) - 1)
  IN IF rest = <<>>
     THEN [l EXCEPT !.stack = rest, !.at = "exit"]
     ELSE [l EXCEPT !.stack = [rest EXCEPT ![Len(rest)].next = @ + 1],
                    !.at = "loop"]

(* Line 111 (deferred) and the return to the caller's loop (line 137, next++). *)
DfsReturn(p, l) ==
  LET f      == Top(l)
      unmark == IF p.noRepeats THEN [l.used EXCEPT ![f.last] = FALSE] ELSE l.used
      rest   == SubSeq(l.stack, 1, Len(l.stack) - 1)
  IN IF rest = <<>>
     THEN [l EXCEPT !.used = unmark, !.stack = rest, !.at = "exit"]
     ELSE [l EXCEPT !.used = unmark,
                    !.stack = [rest EXCEPT ![Len(rest)].next = @ + 1],
                    !.at = "loop"]

DfsStep(p, l) ==
  CASE l.at = "enter" -> DfsEnter(p, l)
    [] l.at = "seps"  -> DfsSeps(p, l)
    [] l.at = "write" -> DfsWritten(p, l)
    [] l.at = "check" -> DfsCheck(p, l)
    [] l.at = "loop"  -> DfsLoop(p, l)
    [] l.at = "ret"   -> DfsReturn(p, l)

(* A task runs on its own until its next call of writeLine or its end (v is
   the state l, worked out once). *)
RECURSIVE RunLocal(_, _)
RunLocal(p, l) ==
  CHOOSE r \in {IF v.at \in {"write", "exit"} THEN v ELSE RunLocal(p, DfsStep(p, v)) :
                v \in {l}} : TRUE

(* As TaskBody, with the largest depth of any source as maxDepth. *)
TaskBody_AnyDepth(p, start) ==
  LET maxDepth == CHOOSE d \in {p.srcDepths[k] : k \in DOMAIN p.srcDepths} :
                    \A k \in DOMAIN p.srcDepths : d >= p.srcDepths[k]
  IN [path     |-> [MakeSlice(maxDepth, 0) EXCEPT ![0] = start],
      used     |-> MakeSlice(SliceLen(p.allItems), FALSE),
      maxDepth |-> maxDepth,
      stack    |-> << [depth |-> 1, last |-> 0, sep |-> 0, next |-> 0] >>,
      at       |-> "enter",
      line     |-> <<>>]

(* Generate, lines 155-159: the body of the task of one start index. *)
TaskBody(p, start) ==
  LET maxDepth == p.srcDepths[p.srcOfItem[start]]
  IN [path     |-> [MakeSlice(maxDepth, 0) EXCEPT ![0] = start],
      used     |-> MakeSlice(SliceLen(p.allItems), FALSE),
      maxDepth |-> maxDepth,
      stack    |-> << [depth |-> 1, last |-> 0, sep |-> 0, next |-> 0] >>,
      at       |-> "enter",
      line     |-> <<>>]

(* The strings one task passes to writeLine, in order, when run to its end. *)
RECURSIVE TaskLines(_, _, _)
TaskLines(p, l, acc) ==
  IF l.at = "exit" THEN acc
  ELSE TaskLines(p, RunLocal(p, DfsStep(p, l)), Append(acc, l.line))

TaskOutput(p, start) == TaskLines(p, RunLocal(p, TaskBody(p, start)), <<>>)

(* The number of writeLine calls of a task from l on, added to cnt; the
   count stops once it exceeds cap. *)
RECURSIVE CountLines(_, _, _, _)
CountLines(p, l, cnt, cap) ==
  IF l.at = "exit" \/ cnt > cap THEN cnt
  ELSE CountLines(p, RunLocal(p, DfsStep(p, l)), cnt + 1, cap)

(* The lines a full run emits, all tasks together, counted up to cap + 1. *)
RECURSIVE TotalLines(_, _, _, _)
TotalLines(p, i, cnt, cap) ==
  IF i >= SliceLen(p.allItems) \/ cnt > cap THEN cnt
  ELSE TotalLines(p, i + 1,
                  CountLines(p, RunLocal(p, TaskBody(p, i)), cnt, cap), cap)

(***************************************************************************)
(* The buffered writer: WriteString and WriteByte copy into the buffer and *)
(* hand the buffer to the writer under it whenever it is full; Flush hands *)
(* over what is left.                                                      *)
(***************************************************************************)
RECURSIVE BufWrite(_, _)
BufWrite(w, s) ==
  LET avail == BufSize - Len(w.buf) IN
  IF Len(s) > avail
  THEN BufWrite([buf |-> <<>>, under |-> w.under \o w.buf \o SubSeq(s, 1, avail)],
                SubSeq(s, avail + 1, Len(s)))
  ELSE [w EXCEPT !.buf = @ \o s]

BufFlush(w) == [buf |-> <<>>, under |-> w.under \o w.buf]

Out == [buf |-> buf, under |-> stdout]

(***************************************************************************)
(* Initial state: RunPermutatorFast has loaded the sources and built the   *)
(* PermutatorFast; Generate is about to start.                             *)
(***************************************************************************)
(* The sequential permutator is not run. *)
PermAtRest == spc = "none" /\ si = 0 /\ sused = <<>> /\ sout = <<>>

(* The builders are followed through the text they hand to writeLine only. *)
PoolAtRest == builders = <<>> /\ free = {} /\ held = <<>>

NotStarted ==
  [path |-> <<>>, used |-> <<>>, maxDepth |-> 0, stack |-> <<>>,
   at |-> "none", line |-> <<>>]

N == SliceLen(allItems)

Init ==
  /\ sources \in SlicesOver(SourceArg, 1, MaxSources)
  /\ seps \in SlicesOver(SepTexts, 1, MaxSeps)
  /\ \E af \in Affixes : prefix = af.prefix /\ suffix = af.suffix
  /\ noRepeats \in BOOLEAN
  /\ allItems = LoadSources(sources).allItems
  /\ srcOfItem = LoadSources(sources).srcOfItem
  /\ srcDepths = LoadSources(sources).srcDepths
  /\ N <= MaxTokens
  /\ TotalLines(ThisP, 0, 0, MaxEmit) <= MaxEmit
  /\ buf = <<>> /\ stdout = <<>> /\ mu = NoTask
  /\ gpc = "loop" /\ gi = 0 /\ wg = 0
  /\ pc = [t \in 0..(N - 1) |-> "idle"]
  /\ task = [t \in 0..(N - 1) |-> NotStarted]
  /\ emitted = [t \in 0..(N - 1) |-> <<>>]
  /\ argv = <<>> /\ ai = 1 /\ showHelp = FALSE /\ countOnly = FALSE
  /\ mpc = "none" /\ ret = NoRet /\ stderr = <<>> /\ exitCode = NoExit
  /\ PermAtRest /\ PoolAtRest

(***************************************************************************)
(* Generate.                                                               *)
(***************************************************************************)
(* Lines 150-152: wg.Add(1) and the go statement for start index gi. *)
Spawn ==
  /\ gpc = "loop" /\ gi < N
  /\ wg' = wg + 1
  /\ pc' = [pc EXCEPT ![gi] = "ready"]
  /\ gi' = gi + 1
  /\ UNCHANGED <<config, sink, gpc, task, emitted, mainv, permv, poolv>>

(* As WgZero, for a Generate that does not wait for its tasks. *)
WgZero_NoJoin == TRUE

(* wg.Wait returns once the counter is zero. *)
WgZero == wg = 0

(* Line 163: the loop is over and wg.Wait has returned. *)
WgWait ==
  /\ gpc = "loop" /\ gi >= N
  /\ WgZero
  /\ gpc' = "flush"
  /\ UNCHANGED <<config, sink, gi, wg, tasks, mainv, permv, poolv>>

(* Line 164: p.out.Flush(), then Generate returns. *)
Flush ==
  /\ gpc = "flush"
  /\ buf' = BufFlush(Out).buf
  /\ stdout' = BufFlush(Out).under
  /\ gpc' = "done"
  /\ UNCHANGED <<config, mu, gi, wg, tasks, mainv, permv, poolv>>

(***************************************************************************)
(* A task.                                                                 *)
(***************************************************************************)
(* The call of writeLine the task has arrived at, as logged in emitted. *)
Emission(l) ==
  [path |-> [k \in 0..(Top(l).depth - 1) |-> l.path[k]],
   sep  |-> Top(l).sep,
   line |-> l.line]

(* As Arrive, for tasks that mark one used array made outside the go
   statement. *)
Arrive_SharedUsed(t, l) ==
  /\ task' = [u \in DOMAIN task |->
               IF u = t THEN l
               ELSE IF task[u].at = "none" THEN task[u]
               ELSE [task[u] EXCEPT !.used = l.used]]
  /\ IF l.at = "exit"
     THEN /\ pc' = [pc EXCEPT ![t] = "done"]
          /\ wg' = wg - 1
          /\ UNCHANGED emitted
     ELSE /\ pc' = [pc EXCEPT ![t] = "lock"]
          /\ emitted' = [emitted EXCEPT ![t] = Append(@, Emission(l))]
          /\ UNCHANGED wg

(* The task has run on its own up to l: at a call of writeLine, or at its
   end, where the deferred wg.Done (line 153) runs. *)
Arrive(t, l) ==
  /\ task' = [task EXCEPT ![t] = l]
  /\ IF l.at = "exit"
     THEN /\ pc' = [pc EXCEPT ![t] = "done"]
          /\ wg' = wg - 1
          /\ UNCHANGED emitted
     ELSE /\ pc' = [pc EXCEPT ![t] = "lock"]
          /\ emitted' = [emitted EXCEPT ![t] = Append(@, Emission(l))]
          /\ UNCHANGED wg

(* Lines 152-159: the goroutine starts and runs up to its first writeLine. *)
TaskStart ==
  \E t \in DOMAIN pc :
    /\ pc[t] = "ready"
    /\ Arrive(t, RunLocal(ThisP, TaskBody(ThisP, t)))
    /\ UNCHANGED <<config, sink, gpc, gi, mainv, permv, poolv>>

(* As MuFree, for a writeLine that takes no mutex. *)
MuFree_NoMutex == TRUE

(* p.mu.Lock() returns only while no task holds the mutex. *)
MuFree == mu = NoTask

(* Line 100. *)
Lock ==
  \E t \in DOMAIN pc :
    /\ pc[t] = "lock"
    /\ MuFree
    /\ mu' = t
    /\ pc' = [pc EXCEPT ![t] = "wstr"]
    /\ UNCHANGED <<config, buf, stdout, gen, task, emitted, mainv, permv, poolv>>

(* Line 101. *)
WriteString ==
  \E t \in DOMAIN pc :
    /\ pc[t] = "wstr"
    /\ buf' = BufWrite(Out, task[t].line).buf
    /\ stdout' = BufWrite(Out, task[t].line).under
    /\ pc' = [pc EXCEPT ![t] = "wbyte"]
    /\ UNCHANGED <<config, mu, gen, task, emitted, mainv, permv, poolv>>

(* Line 102. *)
WriteByte ==
  \E t \in DOMAIN pc :
    /\ pc[t] = "wbyte"
    /\ buf' = BufWrite(Out, <<NL>>).buf
    /\ stdout' = BufWrite(Out, <<NL>>).under
    /\ pc' = [pc EXCEPT ![t] = "unlock"]
    /\ UNCHANGED <<config, mu, gen, task, emitted, mainv, permv, poolv>>

(* As Unlock, for a writeLine that returns without releasing the mutex. *)
Unlock_KeepMutex ==
  \E t \in DOMAIN pc :
    /\ pc[t] = "unlock"
    /\ Arrive(t, RunLocal(ThisP, DfsStep(ThisP, task[t])))
    /\ UNCHANGED <<config, buf, stdout, mu, gpc, gi, mainv, permv, poolv>>

(* Line 103, and the task's own work up to its next writeLine or its end. *)
Unlock ==
  \E t \in DOMAIN pc :
    /\ pc[t] = "unlock"
    /\ mu' = NoTask
    /\ Arrive(t, RunLocal(ThisP, DfsStep(ThisP, task[t])))
    /\ UNCHANGED <<config, buf, stdout, gpc, gi, mainv, permv, poolv>>

Next ==
  \/ Spawn
  \/ WgWait
  \/ Flush
  \/ TaskStart
  \/ Lock
  \/ WriteString
  \/ WriteByte
  \/ Unlock

Spec == Init /\ [][Next]_vars

(***************************************************************************)
(* CalculateOutputLines.                                                   *)
(***************************************************************************)
(* Lines 304-313: nPr. *)
RECURSIVE PermLoop(_, _, _, _)
PermLoop(n, r, i, res) ==
  IF i >= r THEN res ELSE PermLoop(n, r, i + 1, res * (n - i))

Perm(n, r) == IF r < 0 \/ n < 0 \/ n < r THEN 0 ELSE PermLoop(n, r, 0, 1)

(* Lines 315-325: base^exp. *)
RECURSIVE PowLoop(_, _, _, _)
PowLoop(base, exp, i, res) ==
  IF i >= exp THEN res ELSE PowLoop(base, exp, i + 1, res * base)

Pow(base, exp) == IF exp < 0 \/ base < 0 THEN 0 ELSE PowLoop(base, exp, 0, 1)

(* As CountLengths, with the loop stopping before maxDepth. *)
RECURSIVE CountLengths_Exclusive(_, _, _, _, _, _)
CountLengths_Exclusive(n, maxDepth, nr, sepFactor, l, total) ==
  IF l >= maxDepth THEN total
  ELSE LET cnt == IF nr THEN Perm(n - 1, l - 1) ELSE Pow(n - 1, l - 1)
       IN CountLengths_Exclusive(n, maxDepth, nr, sepFactor, l + 1,
                                 total + cnt * sepFactor)

(* Lines 332-343: the lengths 1..maxDepth of one start index. *)
RECURSIVE CountLengths(_, _, _, _, _, _)
CountLengths(n, maxDepth, nr, sepFactor, l, total) ==
  IF l > maxDepth THEN total
  ELSE LET cnt == IF nr THEN Perm(n - 1, l - 1) ELSE Pow(n - 1, l - 1)
       IN CountLengths(n, maxDepth, nr, sepFactor, l + 1, total + cnt * sepFactor)

(* Lines 330-344: every start index. *)
RECURSIVE CountItems(_, _, _, _, _)
CountItems(ld, nr, sepFactor, i, total) ==
  IF i >= SliceLen(ld.allItems) THEN total
  ELSE CountItems(ld, nr, sepFactor, i + 1,
                  CountLengths(SliceLen(ld.allItems),
                               ld.srcDepths[ld.srcOfItem[i]],
                               nr, sepFactor, 1, total))

(* Lines 274-346: the (total, error) returned. *)
CalculateOutputLines(srcs, sp, nr) ==
  LET ld == LoadSources(srcs) IN
  IF ld.err # NoErr THEN [val |-> NilInt, err |-> ld.err]
  ELSE IF SliceLen(ld.allItems) = 0 \/ SliceLen(sp) = 0
  THEN [val |-> 0, err |-> NoErr]
  ELSE [val |-> CountItems(ld, nr, SliceLen(sp), 0, 0), err |-> NoErr]

(***************************************************************************)
(* main: the command line, the flags' Set methods and the texts printed.   *)
(***************************************************************************)
(* Line 28. *)
ErrFormat ==
  <<"s", "o", "u", "r", "c", "e", " ", "m", "u", "s", "t", " ", "b", "e",
    " ", "i", "n", " ", "f", "o", "r", "m", "a", "t", " ", "f", "i", "l",
    "e", ":", "d", "e", "p", "t", "h">>

(* Line 32. *)
ErrInvalidDepth ==
  <<"i", "n", "v", "a", "l", "i", "d", " ", "d", "e", "p", "t", "h", " ",
    "i", "n", " ", "s", "o", "u", "r", "c", "e">>

(* strconv.ErrSyntax. *)
ErrSyntax ==
  <<"i", "n", "v", "a", "l", "i", "d", " ", "s", "y", "n", "t", "a", "x">>

(* Line 391. *)
ErrNoSource ==
  <<"E", "R", "R", "O", "R", ":", " ", "a", "t", " ", "l", "e", "a", "s",
    "t", " ", "o", "n", "e", " ", "-", "s", "o", "u", "r", "c", "e", " ",
    "m", "u", "s", "t", " ", "b", "e", " ", "p", "r", "o", "v", "i", "d",
    "e", "d">>

(* The flag package's report of a Set that failed:
   "invalid value %q for flag -%s: %v". *)
InvalidValue ==
  <<"i", "n", "v", "a", "l", "i", "d", " ", "v", "a", "l", "u", "e", " ">>

ForFlagSource ==
  <<" ", "f", "o", "r", " ", "f", "l", "a", "g", " ", "-", "s", "o", "u",
    "r", "c", "e", ":", " ">>

(* Lines 351-361: what printUsage prints. *)
UsageText ==
  <<"U", "s", "a", "g", "e", ":", " ", "p", "e", "r", "m", "s", " ", "[",
    "o", "p", "t", "i", "o", "n", "s", "]", NL, "O", "p", "t", "i", "o",
    "n", "s", ":", NL, " ", " ", "-", "s", "o", "u", "r", "c", "e", " ",
    "f", "i", "l", "e", ".", "t", "x", "t", ":", "d", "e", "p", "t", "h",
    " ", " ", " ", "I", "n", "p", "u", "t", " ", "f", "i", "l", "e", " ",
    "a", "n", "d", " ", "d", "e", "p", "t", "h", " ", "(", "r", "e", "p",
    "e", "a", "t", "a", "b", "l", "e", ",", " ", "r", "e", "q", "u", "i",
    "r", "e", "d", ")", NL, " ", " ", "-", "s", "e", "p", " ", "s", "e",
    "p", "a", "r", "a", "t", "o", "r", " ", " ", " ", " ", " ", " ", " ",
    " ", " ", " ", " ", "S", "e", "p", "a", "r", "a", "t", "o", "r", " ",
    "s", "t", "r", "i", "n", "g", " ", "(", "r", "e", "p", "e", "a", "t",
    "a", "b", "l", "e", ",", " ", "d", "e", "f", "a", "u", "l", "t", ":",
    " ", "\"", "\"", ")", NL, " ", " ", "-", "p", "r", "e", "f", "i", "x",
    " ", "s", "t", "r", "i", "n", "g", " ", " ", " ", " ", " ", " ", " ",
    " ", " ", " ", " ", "P", "r", "e", "f", "i", "x", " ", "s", "t", "r",
    "i", "n", "g", " ", "f", "o", "r", " ", "e", "a", "c", "h", " ", "o",
    "u", "t", "p", "u", "t", NL, " ", " ", "-", "s", "u", "f", "f", "i",
    "x", " ", "s", "t", "r", "i", "n", "g", " ", " ", " ", " ", " ", " ",
    " ", " ", " ", " ", " ", "S", "u", "f", "f", "i", "x", " ", "s", "t",
    "r", "i", "n", "g", " ", "f", "o", "r", " ", "e", "a", "c", "h", " ",
    "o", "u", "t", "p", "u", "t", NL, " ", " ", "-", "n", "o", "-", "r",
    "e", "p", "e", "a", "t", "s", " ", " ", " ", " ", " ", " ", " ", " ",
    " ", " ", " ", " ", " ", " ", "U", "s", "e", " ", "e", "a", "c", "h",
    " ", "w", "o", "r", "d", " ", "o", "n", "l", "y", " ", "o", "n", "c",
    "e", " ", "p", "e", "r", " ", "s", "e", "q", "u", "e", "n", "c", "e",
    NL, " ", " ", "-", "c", "o", "u", "n", "t", " ", " ", " ", " ", " ",
    " ", " ", " ", " ", " ", " ", " ", " ", " ", " ", " ", " ", " ", " ",
    "P", "r", "i", "n", "t", " ", "t", "h", "e", " ", "n", "u", "m", "b",
    "e", "r", " ", "o", "f", " ", "g", "e", "n", "e", "r", "a", "t", "e",
    "d", " ", "p", "e", "r", "m", "u", "t", "a", "t", "i", "o", "n", "s",
    " ", "a", "n", "d", " ", "e", "x", "i", "t", NL, " ", " ", "-", "h",
    "e", "l", "p", " ", " ", " ", " ", " ", " ", " ", " ", " ", " ", " ",
    " ", " ", " ", " ", " ", " ", " ", " ", " ", "S", "h", "o", "w", " ",
    "t", "h", "i", "s", " ", "h", "e", "l", "p", " ", "m", "e", "s", "s",
    "a", "g", "e", " ", "a", "n", "d", " ", "e", "x", "i", "t", NL>>

Digits == <<"0", "1", "2", "3", "4", "5", "6", "7", "8", "9">>

IsDigit(ch) == \E d \in 1..10 : Digits[d] = ch

DigitVal(ch) == (CHOOSE d \in 1..10 : Digits[d] = ch) - 1

(* strings.Index(s, ":"), counted from 1; 0 when there is none. *)
RECURSIVE IndexColon(_, _)
IndexColon(s, k) ==
  IF k > Len(s) THEN 0 ELSE IF s[k] = ":" THEN k ELSE IndexColon(s, k + 1)

(* As SplitN2, for strings.Split: a part at every colon. *)
RECURSIVE SplitN2_EveryColon(_)
SplitN2_EveryColon(val) ==
  LET k == IndexColon(val, 1) IN
  IF k = 0 THEN [j \in {0} |-> val]
  ELSE LET rest == SplitN2_EveryColon(SubSeq(val, k + 1, Len(val)))
       IN [j \in 0..SliceLen(rest) |->
             IF j = 0 THEN SubSeq(val, 1, k - 1) ELSE rest[j - 1]]

(* strings.SplitN(val, ":", 2). *)
SplitN2(val) ==
  LET k == IndexColon(val, 1) IN
  IF k = 0 THEN [j \in {0} |-> val]
  ELSE [j \in {0, 1} |-> IF j = 0 THEN SubSeq(val, 1, k - 1)
                         ELSE SubSeq(val, k + 1, Len(val))]

(* strconv.Atoi: an optional sign, then one or more decimal digits. *)
RECURSIVE AtoiDigits(_, _, _)
AtoiDigits(s, k, n) ==
  IF k > Len(s) THEN [n |-> n, err |-> NoErr]
  ELSE IF ~IsDigit(s[k]) THEN [n |-> 0, err |-> ErrSyntax]
  ELSE AtoiDigits(s, k + 1, n * 10 + DigitVal(s[k]))

Atoi(s) ==
  LET body == IF s # <<>> /\ s[1] \in {"-", "+"} THEN Tail(s) ELSE s
      r    == AtoiDigits(body, 1, 0)
  IN IF body = <<>> THEN [n |-> 0, err |-> ErrSyntax]
     ELSE IF r.err = NoErr /\ s[1] = "-" THEN [n |-> 0 - r.n, err |-> NoErr]
     ELSE r

(* Lines 25-36: sourceArgs.Set; the list afterwards and the error returned. *)
SourceArgsSet(s, val) ==
  LET parts == SplitN2(val) IN
  IF SliceLen(parts) # 2 THEN [s |-> s, err |-> ErrFormat]
  ELSE IF Atoi(parts[1]).err # NoErr \/ Atoi(parts[1]).n < 1
  THEN [s |-> s, err |-> ErrInvalidDepth]
  ELSE [s |-> SliceAppend(s, [Path |-> parts[0], Depth |-> Atoi(parts[1]).n]),
        err |-> NoErr]

(* Lines 48-51: sepArgs.Set. *)
SepArgsSet(s, val) == [s |-> SliceAppend(s, val), err |-> NoErr]

(* As DefaultSep, with the empty separator added to any list. *)
DefaultSep_Always(sp) == SliceAppend(sp, <<>>)

(* Lines 395-397. *)
DefaultSep(sp) == IF SliceLen(sp) = 0 THEN SliceAppend(sp, <<>>) ELSE sp

(* %q of a text without quotes, backslashes or control characters. *)
Quoted(val) == <<"\"">> \o val \o <<"\"">>

FlagFail(val, err) == InvalidValue \o Quoted(val) \o ForFlagSource \o err

(* big.Int.String() of a non-negative value, as fmt.Println prints it. *)
RECURSIVE Decimal(_)
Decimal(n) ==
  IF n < 10 THEN <<Digits[n + 1]>>
  ELSE Decimal(n \div 10) \o <<Digits[(n % 10) + 1]>>

(* main's variables that the flags are bound to (lines 364-381). *)
MainVars ==
  [sources |-> sources, seps |-> seps, prefix |-> prefix, suffix |-> suffix,
   noRepeats |-> noRepeats, countOnly |-> countOnly, showHelp |-> showHelp,
   err |-> NoErr]

ZeroVars ==
  [sources |-> <<>>, seps |-> <<>>, prefix |-> <<>>, suffix |-> <<>>,
   noRepeats |-> FALSE, countOnly |-> FALSE, showHelp |-> FALSE,
   err |-> NoErr]

(* flag.Parse, one argument: the Set of the flag it names. *)
ParseOne(m, a) ==
  CASE a.name = "source"     ->
         [m EXCEPT !.sources = SourceArgsSet(m.sources, a.val).s,
                   !.err = SourceArgsSet(m.sources, a.val).err]
    [] a.name = "sep"        -> [m EXCEPT !.seps = SepArgsSet(@, a.val).s]
    [] a.name = "prefix"     -> [m EXCEPT !.prefix = a.val]
    [] a.name = "suffix"     -> [m EXCEPT !.suffix = a.val]
    [] a.name = "no-repeats" -> [m EXCEPT !.noRepeats = TRUE]
    [] a.name = "count"      -> [m EXCEPT !.countOnly = TRUE]
    [] a.name = "help"       -> [m EXCEPT !.showHelp = TRUE]

(* flag.Parse: every argument in order, up to the first Set that fails. *)
RECURSIVE ParseFrom(_, _, _)
ParseFrom(args, k, m) ==
  IF k > Len(args) \/ m.err # NoErr THEN m
  ELSE ParseFrom(args, k + 1, ParseOne(m, args[k]))

(***************************************************************************)
(* CalculateOutputLines called on its own, on any sources (a file that     *)
(* does not exist among them), any separators (none among them) and either *)
(* setting of no-repeat.                                                   *)
(***************************************************************************)
CountSourceArg == [Path : Paths \cup {GoneTxt}, Depth : 1..MaxDepth]

AtRest ==
  /\ prefix = <<>> /\ suffix = <<>>
  /\ allItems = <<>> /\ srcOfItem = <<>> /\ srcDepths = <<>>
  /\ buf = <<>> /\ stdout = <<>> /\ mu = NoTask
  /\ gpc = "none" /\ gi = 0 /\ wg = 0
  /\ pc = <<>> /\ task = <<>> /\ emitted = <<>>
  /\ ret = NoRet /\ stderr = <<>> /\ exitCode = NoExit
  /\ PermAtRest /\ PoolAtRest

CountInit ==
  /\ sources \in SlicesOver(CountSourceArg, 0, MaxSources)
  /\ seps \in SlicesOver(SepTexts, 0, MaxSeps)
  /\ noRepeats \in BOOLEAN
  /\ argv = <<>> /\ ai = 1 /\ showHelp = FALSE /\ countOnly = TRUE
  /\ mpc = "count"
  /\ AtRest

(* Line 400: the call of CalculateOutputLines and its return. *)
CountCall ==
  /\ mpc = "count"
  /\ ret' = CalculateOutputLines(sources, seps, noRepeats)
  /\ mpc' = "counted"
  /\ UNCHANGED <<config, sink, gen, tasks>>
  /\ UNCHANGED <<permv, poolv, argv, ai, showHelp, countOnly, stderr, exitCode>>

CountNext == CountCall

CountSpec == CountInit /\ [][CountNext]_vars

(***************************************************************************)
(* The whole process: main from flag.Parse to its exit.                    *)
(***************************************************************************)
MaxArgs == 3
MaxMainEmit == 4

Arg(name, val) == [name |-> name, val |-> val]

(* Values given to -source: well formed, of a file that is blank, torn or
   missing, and malformed. *)
SourceVals ==
  { <<"o", "n", "e", ".", "t", "x", "t", ":", "1">>,
    <<"t", "w", "o", ".", "t", "x", "t", ":", "1">>,
    <<"t", "w", "o", ".", "t", "x", "t", ":", "2">>,
    <<"o", "n", "e", ".", "t", "x", "t", ":", "+", "2">>,
    <<"b", "l", "a", "n", "k", ".", "t", "x", "t", ":", "1">>,
    <<"t", "o", "r", "n", ".", "t", "x", "t", ":", "1">>,
    <<"g", "o", "n", "e", ".", "t", "x", "t", ":", "1">>,
    <<"o", "n", "e", ".", "t", "x", "t">>,
    <<"o", "n", "e", ".", "t", "x", "t", ":", "z", "e", "r", "o">>,
    <<"o", "n", "e", ".", "t", "x", "t", ":", "0">>,
    <<"o", "n", "e", ".", "t", "x", "t", ":", "-", "1">>,
    <<"o", "n", "e", ".", "t", "x", "t", ":">>,
    <<"o", "n", "e", ".", "t", "x", "t", ":", "1", ":", "2">> }

Flags ==
  {Arg("source", v) : v \in SourceVals}
    \cup {Arg("sep", <<"-">>), Arg("sep", <<>>),
          Arg("prefix", <<"P", "R", "E", "-">>),
          Arg("suffix", <<"-", "S", "U", "F">>),
          Arg("no-repeats", <<>>), Arg("count", <<>>), Arg("help", <<>>)}

(* -source xy.txt:2 -source z.txt:1 -sep - -no-repeats *)
ScenarioAArgs ==
  << Arg("source", <<"x", "y", ".", "t", "x", "t", ":", "2">>),
     Arg("source", <<"z", ".", "t", "x", "t", ":", "1">>),
     Arg("sep", <<"-">>), Arg("no-repeats", <<>>) >>

(* -source animals.txt:2 -source actions.txt:1 -sep "-" --no-repeats *)
ReadmeArgs ==
  << Arg("source", <<"a", "n", "i", "m", "a", "l", "s", ".", "t", "x", "t", ":", "2">>),
     Arg("source", <<"a", "c", "t", "i", "o", "n", "s", ".", "t", "x", "t", ":", "1">>),
     Arg("sep", <<"-">>), Arg("no-repeats", <<>>) >>

(* The engine p that main builds from the variables m once the sources ld
   are loaded. *)
EngineOf(m, ld) ==
  [allItems |-> ld.allItems, srcOfItem |-> ld.srcOfItem, srcDepths |-> ld.srcDepths,
   seps |-> DefaultSep(m.seps), prefix |-> m.prefix, suffix |-> m.suffix,
   noRepeats |-> m.noRepeats]

(* The command lines whose run, when it comes to the engine, stays within
   the bounds on the pool and on the lines emitted. *)
Fits(args) ==
  LET m  == ParseFrom(args, 1, ZeroVars)
      ld == LoadSources(m.sources)
  IN \/ m.err # NoErr \/ m.showHelp \/ m.countOnly
     \/ SliceLen(m.sources) = 0 \/ ld.err # NoErr
     \/ /\ SliceLen(ld.allItems) <= MaxTokens
        /\ TotalLines(EngineOf(m, ld), 0, 0, MaxMainEmit) <= MaxMainEmit

CommandLines ==
  {args \in UNION {[1..k -> Flags] : k \in 0..MaxArgs} : Fits(args)}
    \cup {ScenarioAArgs, ReadmeArgs}

MainInit ==
  /\ argv \in CommandLines
  /\ ai = 1 /\ mpc = "parse"
  /\ sources = <<>> /\ seps = <<>> /\ noRepeats = FALSE
  /\ showHelp = FALSE /\ countOnly = FALSE
  /\ AtRest

(* Line 383, one argument: its flag's Set; when Set fails the flag package
   reports the error on standard error and exits with status 2. *)
ParseArg ==
  /\ mpc = "parse" /\ ai <= Len(argv)
  /\ LET m == ParseOne(MainVars, argv[ai]) IN
     /\ sources' = m.sources /\ seps' = m.seps
     /\ prefix' = m.prefix /\ suffix' = m.suffix
     /\ noRepeats' = m.noRepeats /\ countOnly' = m.countOnly
     /\ showHelp' = m.showHelp
     /\ ret' = [val |-> NilInt, err |-> m.err]
     /\ IF m.err = NoErr
        THEN /\ ai' = ai + 1
             /\ UNCHANGED <<mpc, stderr, exitCode>>
        ELSE /\ stderr' = stderr \o FlagFail(argv[ai].val, m.err) \o <<NL>>
             /\ exitCode' = 2
             /\ mpc' = "exited"
             /\ UNCHANGED ai
  /\ UNCHANGED <<allItems, srcOfItem, srcDepths, sink, gen, tasks, argv,
               permv, poolv>>

(* Lines 383-388: flag.Parse has returned; help. *)
MainHelp ==
  /\ mpc = "parse" /\ ai > Len(argv)
  /\ IF showHelp
     THEN /\ stdout' = stdout \o UsageText
          /\ exitCode' = 0
          /\ mpc' = "exited"
     ELSE /\ mpc' = "nosrc"
          /\ UNCHANGED <<stdout, exitCode>>
  /\ UNCHANGED <<config, buf, mu, gen, tasks>>
  /\ UNCHANGED <<permv, poolv, argv, ai, showHelp, countOnly, ret, stderr>>

(* Lines 390-394. *)
MainNoSource ==
  /\ mpc = "nosrc"
  /\ IF SliceLen(sources) = 0
     THEN /\ stderr' = stderr \o ErrNoSource \o <<NL>>
          /\ stdout' = stdout \o UsageText
          /\ exitCode' = 1
          /\ mpc' = "exited"
     ELSE /\ mpc' = "defsep"
          /\ UNCHANGED <<stdout, stderr, exitCode>>
  /\ UNCHANGED <<config, buf, mu, gen, tasks>>
  /\ UNCHANGED <<permv, poolv, argv, ai, showHelp, countOnly, ret>>

(* Lines 395-399: the default separator, and the branch on countOnly. *)
MainDefaultSep ==
  /\ mpc = "defsep"
  /\ seps' = DefaultSep(seps)
  /\ mpc' = IF countOnly THEN "count" ELSE "load"
  /\ UNCHANGED <<sources, prefix, suffix, noRepeats,
                 allItems, srcOfItem, srcDepths, sink, gen, tasks>>
  /\ UNCHANGED <<permv, poolv, argv, ai, showHelp, countOnly, ret, stderr, exitCode>>

(* As MainCounted, without the os.Exit(0) of line 406. *)
MainCounted_NoExit ==
  /\ mpc = "counted"
  /\ IF ret.err # NoErr
     THEN /\ stderr' = stderr \o ret.err \o <<NL>>
          /\ exitCode' = 1
          /\ mpc' = "exited"
          /\ UNCHANGED stdout
     ELSE /\ stdout' = stdout \o Decimal(ret.val) \o <<NL>>
          /\ mpc' = "load"
          /\ UNCHANGED <<stderr, exitCode>>
  /\ UNCHANGED <<config, buf, mu, gen, tasks>>
  /\ UNCHANGED <<permv, poolv, argv, ai, showHelp, countOnly, ret>>

(* Lines 401-406: the count, or the error, printed. *)
MainCounted ==
  /\ mpc = "counted"
  /\ IF ret.err # NoErr
     THEN /\ stderr' = stderr \o ret.err \o <<NL>>
          /\ exitCode' = 1
          /\ UNCHANGED stdout
     ELSE /\ stdout' = stdout \o Decimal(ret.val) \o <<NL>>
          /\ exitCode' = 0
          /\ UNCHANGED stderr
  /\ mpc' = "exited"
  /\ UNCHANGED <<config, buf, mu, gen, tasks>>
  /\ UNCHANGED <<permv, poolv, argv, ai, showHelp, countOnly, ret>>

(* Lines 233-249 of RunPermutatorFast, one source; the loop index is the
   number of depths appended so far. *)
LoadSource ==
  /\ mpc = "load" /\ SliceLen(srcDepths) < SliceLen(sources)
  /\ LET ld == LoadOne(sources, SliceLen(srcDepths),
                       [allItems |-> allItems, srcOfItem |-> srcOfItem,
                        srcDepths |-> srcDepths, err |-> NoErr])
     IN /\ allItems' = ld.allItems
        /\ srcOfItem' = ld.srcOfItem
        /\ srcDepths' = ld.srcDepths
        /\ IF ld.err # NoErr
           THEN ret' = [val |-> NilInt, err |-> ld.err] /\ mpc' = "failed"
           ELSE UNCHANGED <<ret, mpc>>
  /\ UNCHANGED <<sources, seps, prefix, suffix, noRepeats, sink, gen, tasks>>
  /\ UNCHANGED <<permv, poolv, argv, ai, showHelp, countOnly, stderr, exitCode>>

(* Lines 266-267 and 147-148: the engine is built and Generate entered. *)
NewPermutatorFast ==
  /\ mpc = "load" /\ SliceLen(srcDepths) >= SliceLen(sources)
  /\ pc' = [t \in 0..(N - 1) |-> "idle"]
  /\ task' = [t \in 0..(N - 1) |-> NotStarted]
  /\ emitted' = [t \in 0..(N - 1) |-> <<>>]
  /\ gpc' = "loop" /\ gi' = 0 /\ wg' = 0
  /\ mpc' = "generate"
  /\ UNCHANGED <<config, sink>>
  /\ UNCHANGED <<permv, poolv, argv, ai, showHelp, countOnly, ret, stderr, exitCode>>

(* Lines 410-413: RunPermutatorFast returned an error. *)
MainFail ==
  /\ mpc = "failed"
  /\ stderr' = stderr \o ret.err \o <<NL>>
  /\ exitCode' = 1
  /\ mpc' = "exited"
  /\ UNCHANGED <<config, sink, gen, tasks>>
  /\ UNCHANGED <<permv, poolv, argv, ai, showHelp, countOnly, ret>>

(* Lines 268 and 414: Generate has returned, RunPermutatorFast returns nil
   and main returns. *)
MainReturn ==
  /\ mpc = "generate" /\ gpc = "done"
  /\ ret' = NoRet
  /\ exitCode' = 0
  /\ mpc' = "exited"
  /\ UNCHANGED <<config, sink, gen, tasks>>
  /\ UNCHANGED <<permv, poolv, argv, ai, showHelp, countOnly, stderr>>

MainNext ==
  \/ ParseArg
  \/ MainHelp
  \/ MainNoSource
  \/ MainDefaultSep
  \/ CountCall
  \/ MainCounted
  \/ LoadSource
  \/ NewPermutatorFast
  \/ MainFail
  \/ MainReturn
  \/ Spawn
  \/ WgWait
  \/ Flush
  \/ TaskStart
  \/ Lock
  \/ WriteString
  \/ WriteByte
  \/ Unlock

MainSpec == MainInit /\ [][MainNext]_vars

(***************************************************************************)
(* Reading the state: the output stream and the emissions.                 *)
(***************************************************************************)
(* Every byte appended to the sink so far, in order. *)
Stream == stdout \o buf

(* The text before the first terminator of s, and the text after it. *)
RECURSIVE UpToNL(_, _)
UpToNL(s, k) == IF k > Len(s) \/ s[k] = NL THEN k ELSE UpToNL(s, k + 1)

(* s cut at its terminators: the terminated lines, and what follows the last. *)
RECURSIVE SplitLines(_, _)
SplitLines(s, acc) ==
  LET k == UpToNL(s, 1) IN
  IF k > Len(s) THEN [lines |-> acc, rest |-> s]
  ELSE SplitLines(SubSeq(s, k + 1, Len(s)), Append(acc, SubSeq(s, 1, k - 1)))

LinesOf(s) == SplitLines(s, <<>>).lines

SeqBag(q) == [x \in {q[k] : k \in 1..Len(q)} |-> Cardinality({k \in 1..Len(q) : q[k] = x})]

(* The start indices that have a task: all of them once Generate is entered. *)
Tasks == DOMAIN pc

(* All the emissions so far, as (task, position in its log). *)
EmissionIds == UNION {{<<t, k>> : k \in 1..Len(emitted[t])} : t \in Tasks}

Em(id) == emitted[id[1]][id[2]]

StartDepth(i) == srcDepths[srcOfItem[i]]

(* The different sequences of length len starting at i emitted so far. *)
SeqsEmitted(i, len) ==
  {Em(id).path : id \in {x \in EmissionIds : /\ SliceLen(Em(x).path) = len
                                             /\ Em(x).path[0] = i}}

Done == gpc = "done"

(***************************************************************************)
(* C1: for every valid configuration (at least one source, at least one    *)
(* separator) the value of CalculateOutputLines equals the number of lines *)
(* the engine has written when Generate returns.                           *)
(***************************************************************************)
C1_CounterEqualsEngine ==
  (Done /\ SliceLen(seps) >= 1) =>
    CalculateOutputLines(sources, seps, noRepeats).val = Len(LinesOf(stdout))

(***************************************************************************)
(* C9: with no-repeat off, for every start index i and every length L in   *)
(* 1..MaxDepth(source(i)) the engine enumerates (N-1)^(L-1) sequences of   *)
(* length L starting at i.                                                 *)
(***************************************************************************)
C9_RepeatCountIsPowNMinus1 ==
  (Done /\ ~noRepeats /\ SliceLen(seps) >= 1) =>
    \A i \in Tasks : \A len \in 1..StartDepth(i) :
      Cardinality(SeqsEmitted(i, len)) = Pow(N - 1, len - 1)

(* What the engine does enumerate with no-repeat off: N^(L-1) sequences of
   length L per start index, every pool index being allowed at every later
   position. *)
EngineRepeatCountIsPowN ==
  (Done /\ ~noRepeats) =>
    \A i \in Tasks : \A len \in 1..StartDepth(i) :
      Cardinality(SeqsEmitted(i, len)) = Pow(N, len - 1)

(* With no-repeat on the counter and the engine agree. *)
CounterEqualsEngineNoRepeat ==
  (Done /\ noRepeats) =>
    CalculateOutputLines(sources, seps, noRepeats).val = Len(LinesOf(stdout))

(***************************************************************************)
(* The sequences section 4.1 of the specification asks for: start index i, *)
(* length 1..MaxDepth(source(i)), later elements any pool index, or any    *)
(* pool index not yet in the sequence under no-repeat.                     *)
(***************************************************************************)
Injective(f) == \A j, k \in DOMAIN f : j # k => f[j] # f[k]

LargestDepth ==
  CHOOSE d \in {srcDepths[k] : k \in DOMAIN srcDepths} :
    \A k \in DOMAIN srcDepths : d >= srcDepths[k]

ValidSeqs ==
  {q \in SlicesOver(Tasks, 1, LargestDepth) :
     /\ SliceLen(q) <= StartDepth(q[0])
     /\ noRepeats => Injective(q)}

(***************************************************************************)
(* C2: a full run emits exactly one line for every valid sequence and      *)
(* every separator position: none missing, none twice, no other.           *)
(***************************************************************************)
C2_EngineExact ==
  Done =>
    /\ \A id \in EmissionIds : Em(id).path \in ValidSeqs /\ Em(id).sep \in DOMAIN seps
    /\ \A q \in ValidSeqs : \A k \in DOMAIN seps :
         Cardinality({id \in EmissionIds : Em(id).path = q /\ Em(id).sep = k}) = 1
    /\ Len(LinesOf(stdout)) = Cardinality(EmissionIds)

(* A finished run with repeats allowed, two separators and two tokens, in
   which a start token was followed by itself. *)
C2_Witness ==
  /\ Done /\ ~noRepeats /\ SliceLen(seps) = 2 /\ N >= 2
  /\ \E id \in EmissionIds :
       SliceLen(Em(id).path) >= 2 /\ Em(id).path[1] = Em(id).path[0]

(***************************************************************************)
(* C3: every emitted sequence has a length between 1 and the depth of the  *)
(* source of its first token, whatever the sources of its later tokens.    *)
(***************************************************************************)
C3_DepthBound ==
  \A id \in EmissionIds :
    /\ 1 <= SliceLen(Em(id).path)
    /\ SliceLen(Em(id).path) <= StartDepth(Em(id).path[0])

(* An emitted sequence longer than the depth of the source of one of its
   later tokens. *)
C3_Witness ==
  \E id \in EmissionIds : \E k \in DOMAIN Em(id).path :
    k >= 1 /\ StartDepth(Em(id).path[k]) < SliceLen(Em(id).path)

(***************************************************************************)
(* C4: under no-repeat no emitted sequence holds the same pool index at    *)
(* two positions (equal texts at different indices are allowed).           *)
(***************************************************************************)
C4_NoRepeat ==
  noRepeats => \A id \in EmissionIds : Injective(Em(id).path)

(* Under no-repeat, an emitted sequence with the same text at two positions. *)
C4_Witness ==
  /\ noRepeats
  /\ \E id \in EmissionIds : \E j, k \in DOMAIN Em(id).path :
       j # k /\ allItems[Em(id).path[j]] = allItems[Em(id).path[k]]

(***************************************************************************)
(* C10: under no-repeat, for every start index i and every length L in     *)
(* 1..MaxDepth(source(i)) the engine enumerates (N-1)(N-2)...(N-L+1)       *)
(* sequences of length L starting at i, none when L-1 > N-1; the run ends  *)
(* normally and the counter's term for such a length is zero.              *)
(***************************************************************************)
RECURSIVE FallingProduct(_, _)
FallingProduct(n, r) == IF r = 0 THEN 1 ELSE n * FallingProduct(n - 1, r - 1)

C10_NoRepeatCount ==
  (Done /\ noRepeats /\ SliceLen(seps) >= 1) =>
    \A i \in Tasks : \A len \in 1..StartDepth(i) :
      /\ Cardinality(SeqsEmitted(i, len)) = FallingProduct(N - 1, len - 1)
      /\ Perm(N - 1, len - 1) = Cardinality(SeqsEmitted(i, len))
      /\ len - 1 > N - 1 => SeqsEmitted(i, len) = {}

(* A finished no-repeat run of two tokens whose first has a depth larger
   than the pool. *)
C10_Witness ==
  /\ Done /\ noRepeats /\ SliceLen(seps) >= 1 /\ N = 2
  /\ StartDepth(0) > N
  /\ SeqsEmitted(0, 2) # {}

(***************************************************************************)
(* C5: under every interleaving, each string passed to writeLine is        *)
(* appended to the stream exactly once, in one piece and directly followed *)
(* by its terminator, and at most one task is inside the write section.    *)
(***************************************************************************)
InWrite == {t \in Tasks : pc[t] \in {"wstr", "wbyte", "unlock"}}

(* The strings of the writeLine calls of task t that have written their
   terminator. *)
Terminated(t) ==
  IF pc[t] \in {"lock", "wstr", "wbyte"}
  THEN SubSeq(emitted[t], 1, Len(emitted[t]) - 1)
  ELSE emitted[t]

RECURSIVE LinesFrom(_, _)
LinesFrom(log, k) ==
  IF k > Len(log) THEN <<>> ELSE <<log[k].line>> \o LinesFrom(log, k + 1)

(* The strings of all tasks that have been written with their terminator. *)
RECURSIVE TerminatedFrom(_)
TerminatedFrom(t) ==
  IF t >= N THEN <<>> ELSE LinesFrom(Terminated(t), 1) \o TerminatedFrom(t + 1)

C5_SinkAtomic ==
  LET cut == SplitLines(Stream, <<>>) IN
  /\ Cardinality(InWrite) <= 1
  /\ \A t \in InWrite : mu = t
  /\ SeqBag(cut.lines) = SeqBag(TerminatedFrom(0))
  /\ cut.rest = IF \E t \in Tasks : pc[t] = "wbyte"
                THEN task[CHOOSE t \in Tasks : pc[t] = "wbyte"].line
                ELSE <<>>

(* One task has written its string but not yet the terminator, while another
   task stands at the mutex and a third string is already in the stream. *)
C5_Witness ==
  \E t, u \in Tasks :
    /\ t # u /\ pc[t] = "wbyte" /\ pc[u] = "lock"
    /\ Len(Terminated(u)) >= 1 /\ Len(Terminated(t)) >= 1

(***************************************************************************)
(* C6: the final flush starts only after every task has finished, no task  *)
(* writes to the sink once it has started, and when Generate returns every *)
(* emitted line is in the underlying writer.                               *)
(***************************************************************************)
RECURSIVE EmittedFrom(_)
EmittedFrom(t) ==
  IF t >= N THEN <<>> ELSE LinesFrom(emitted[t], 1) \o EmittedFrom(t + 1)

C6_JoinBeforeFlush ==
  /\ gpc \in {"flush", "done"} => \A t \in Tasks : pc[t] = "done"
  /\ Done =>
       /\ buf = <<>>
       /\ SeqBag(LinesOf(stdout)) = SeqBag(EmittedFrom(0))

(* Generate has returned after at least two tasks wrote lines. *)
C6_Witness ==
  /\ Done /\ stdout # <<>>
  /\ \E t, u \in Tasks : t # u /\ emitted[t] # <<>> /\ emitted[u] # <<>>

(***************************************************************************)
(* C7: for a fixed pool and configuration the lines in the output at the   *)
(* end of the run are, as a multiset, the same under every interleaving:   *)
(* those of the tasks run one after the other.                             *)
(***************************************************************************)
RECURSIVE OneByOne(_, _)
OneByOne(p, i) ==
  IF i >= SliceLen(p.allItems) THEN <<>>
  ELSE TaskOutput(p, i) \o OneByOne(p, i + 1)

C7_ContentDeterminism ==
  Done => SeqBag(LinesOf(stdout)) = SeqBag(OneByOne(ThisP, 0))

(* A finished run whose lines are not in the order of the start indices. *)
C7_Witness ==
  Done /\ LinesOf(stdout) # OneByOne(ThisP, 0)

(***************************************************************************)
(* C8: the line of a sequence of length L and a separator is the prefix,   *)
(* the tokens of the sequence with the separator between consecutive ones  *)
(* (none for L = 1), and the suffix; the token foo alone at depth 1 with   *)
(* prefix PRE-, suffix -SUF and one empty separator gives the single line  *)
(* PRE-foo-SUF.                                                            *)
(***************************************************************************)
RECURSIVE Joined(_, _, _)
Joined(q, sep, last) ==
  IF last = 0 THEN allItems[q[0]]
  ELSE Joined(q, sep, last - 1) \o sep \o allItems[q[last]]

RECURSIVE TokenChars(_, _)
TokenChars(q, k) ==
  IF k >= SliceLen(q) THEN 0 ELSE Len(allItems[q[k]]) + TokenChars(q, k + 1)

ScenarioC ==
  /\ sources = [k \in {0} |-> [Path |-> OneTxt, Depth |-> 1]]
  /\ seps = [k \in {0} |-> <<>>]
  /\ prefix = <<"P", "R", "E", "-">> /\ suffix = <<"-", "S", "U", "F">>

C8_EmissionFormat ==
  /\ \A id \in EmissionIds :
       LET e == Em(id) IN
       /\ e.line = prefix \o Joined(e.path, seps[e.sep], SliceLen(e.path) - 1) \o suffix
       /\ Len(e.line) = Len(prefix) + TokenChars(e.path, 0)
                        + (SliceLen(e.path) - 1) * Len(seps[e.sep]) + Len(suffix)
  /\ (ScenarioC /\ Done) =>
       stdout = <<"P", "R", "E", "-", "f", "o", "o", "-", "S", "U", "F", NL>>

(* A line of two tokens with a non-empty separator, prefix and suffix has
   reached the output. *)
C8_Witness ==
  /\ Done /\ prefix # <<>> /\ suffix # <<>>
  /\ \E id \in EmissionIds : SliceLen(Em(id).path) >= 2 /\ seps[Em(id).sep] # <<>>

(* The run of scenario C has finished. *)
C8_ScenarioReached == ScenarioC /\ Done /\ ~noRepeats

(***************************************************************************)
(* C11: CalculateOutputLines returns S times the sum, over every pool      *)
(* index i and every L in 1..MaxDepth(source(i)), of the falling factorial *)
(* (N-1)...(N-L+1) under no-repeat and of (N-1)^(L-1) otherwise, as an     *)
(* exact non-negative integer; 0 when N = 0 or S = 0; and 3 for three      *)
(* tokens all at depth 1, one separator and no-repeat off.                 *)
(***************************************************************************)
RECURSIVE Power(_, _)
Power(b, e) == IF e = 0 THEN 1 ELSE b * Power(b, e - 1)

PerLength(n, len, nr) ==
  IF nr THEN FallingProduct(n - 1, len - 1) ELSE Power(n - 1, len - 1)

RECURSIVE SumLengths(_, _, _)
SumLengths(n, len, nr) ==
  IF len = 0 THEN 0 ELSE PerLength(n, len, nr) + SumLengths(n, len - 1, nr)

RECURSIVE SumStarts(_, _, _)
SumStarts(ld, i, nr) ==
  IF i < 0 THEN 0
  ELSE SumLengths(SliceLen(ld.allItems), ld.srcDepths[ld.srcOfItem[i]], nr)
       + SumStarts(ld, i - 1, nr)

ScenarioB ==
  /\ SliceLen(LoadSources(sources).allItems) = 3
  /\ \A k \in DOMAIN sources : sources[k].Depth = 1
  /\ SliceLen(seps) = 1 /\ ~noRepeats

C11_CounterFormula ==
  (mpc = "counted" /\ ret.err = NoErr) =>
    LET ld == LoadSources(sources)
        n  == SliceLen(ld.allItems)
    IN /\ ret.val \in Nat
       /\ ret.val = SliceLen(seps) * SumStarts(ld, n - 1, noRepeats)
       /\ (n = 0 \/ SliceLen(seps) = 0) => ret.val = 0
       /\ ScenarioB => ret.val = 3

(* A count under no-repeat with two separators, two tokens and a depth
   larger than the pool. *)
C11_Witness ==
  /\ mpc = "counted" /\ ret.err = NoErr /\ noRepeats
  /\ SliceLen(seps) = 2 /\ SliceLen(LoadSources(sources).allItems) = 2
  /\ \E k \in DOMAIN sources : sources[k].Depth = 3
  /\ ret.val > 0

(* The count of scenario B has been returned. *)
C11_ScenarioReached == mpc = "counted" /\ ScenarioB /\ ret.val = 3

(* A count of a non-empty pool with no separator has been returned. *)
C11_NoSeparatorReached ==
  /\ mpc = "counted" /\ SliceLen(seps) = 0
  /\ SliceLen(LoadSources(sources).allItems) > 0 /\ ret.val = 0

(***************************************************************************)
(* Reading the state of the whole process.                                 *)
(***************************************************************************)
Exited == mpc = "exited"

(* The lines on standard output, as a set. *)
OutLines == {LinesOf(stdout)[k] : k \in 1..Len(LinesOf(stdout))}

(***************************************************************************)
(* C12: scenario A.  With the sources xy.txt = [x, y] at depth 2 and       *)
(* z.txt = [z] at depth 1, separator "-" and no-repeat on, the output      *)
(* holds x, y, z, x-y, x-z, y-x and y-z; x-z is there although z's source  *)
(* has depth 1, the bound being that of x's source; and no sequence of     *)
(* length 2 starts with z.                                                 *)
(***************************************************************************)
ScenarioALines ==
  { <<"x">>,
    <<"y">>,
    <<"z">>,
    <<"x", "-", "y">>,
    <<"x", "-", "z">>,
    <<"y", "-", "x">>,
    <<"y", "-", "z">> }

C12_ScenarioA ==
  argv = ScenarioAArgs =>
    /\ \A id \in EmissionIds :
         allItems[Em(id).path[0]] = <<"z">> => SliceLen(Em(id).path) = 1
    /\ Exited =>
         /\ ScenarioALines \subseteq OutLines
         /\ \E id \in EmissionIds :
              /\ Em(id).line = <<"x", "-", "z">>
              /\ StartDepth(Em(id).path[0]) = 2
              /\ StartDepth(Em(id).path[1]) = 1
         /\ \A line \in OutLines : line[1] = "z" => line = <<"z">>

(* The run of scenario A has ended with x-z on standard output. *)
C12_Witness ==
  /\ argv = ScenarioAArgs /\ Exited /\ exitCode = 0
  /\ <<"x", "-", "z">> \in OutLines

(***************************************************************************)
(* C13: the README example.  With animals.txt = [cat, dog] at depth 2,     *)
(* actions.txt = [jump, run] at depth 1, separator "-" and no-repeats, the *)
(* output is exactly the eight lines cat, cat-jump, cat-run, dog,          *)
(* dog-jump, dog-run, jump, run.                                           *)
(***************************************************************************)
ReadmeLines ==
  << <<"c", "a", "t">>,
     <<"c", "a", "t", "-", "j", "u", "m", "p">>,
     <<"c", "a", "t", "-", "r", "u", "n">>,
     <<"d", "o", "g">>,
     <<"d", "o", "g", "-", "j", "u", "m", "p">>,
     <<"d", "o", "g", "-", "r", "u", "n">>,
     <<"j", "u", "m", "p">>,
     <<"r", "u", "n">> >>

C14_NoRepeatedWord ==
  noRepeats =>
    \A id \in EmissionIds : \A j, k \in DOMAIN Em(id).path :
      j # k => allItems[Em(id).path[j]] # allItems[Em(id).path[k]]

(***************************************************************************)
(* The stage main's run has come to.                                       *)
(***************************************************************************)
(* main went past its checks of the command line: flag.Parse succeeded,    *)
(* help was not asked for and a source was given.                          *)
RanLoad == Exited /\ exitCode # 2 /\ ~showHelp /\ SliceLen(sources) > 0

PastChecks ==
  mpc \in {"count", "counted", "load", "failed", "generate"} \/ RanLoad

(* s holds sub as a contiguous part. *)
Contains(s, sub) ==
  \E k \in 0..(Len(s) - Len(sub)) : SubSeq(s, k + 1, k + Len(sub)) = sub

(***************************************************************************)
(* C15: the process exits with status 1 on every configuration error (no   *)
(* source given, a source value without a colon, a depth that is not a     *)
(* number, a depth below 1) and with status 0 on success and on help.      *)
(***************************************************************************)
SetFailed == ret.err \in {ErrFormat, ErrInvalidDepth}

NoSourceGiven == Contains(stderr, ErrNoSource)

C15_ExitCodes ==
  Exited =>
    /\ (SetFailed \/ NoSourceGiven) => exitCode = 1
    /\ (~SetFailed /\ showHelp) => exitCode = 0
    /\ (gpc = "done" \/ (countOnly /\ RanLoad /\ ret.err = NoErr)) => exitCode = 0

(* What the code does: status 2, set by the flag package, when a source
   value is rejected; 1 when no source is given or a source does not open;
   0 otherwise. *)
ExitCodesOfTheCode ==
  Exited =>
    exitCode = IF SetFailed THEN 2
               ELSE IF showHelp THEN 0
               ELSE IF NoSourceGiven \/ ret.err # NoErr THEN 1
               ELSE 0

(***************************************************************************)
(* C16: sourceArgs.Set returns the "format" error for a value without a    *)
(* colon and the "invalid depth" error when the text after the first colon *)
(* is not an integer or is below 1, and then leaves the list as it was;    *)
(* for a valid path:depth it appends one source with that path and depth   *)
(* at the end of the list and keeps the entries before it.                 *)
(***************************************************************************)
HasColon(v) == \E k \in 1..Len(v) : v[k] = ":"

FirstColon(v) ==
  CHOOSE k \in 1..Len(v) : v[k] = ":" /\ \A j \in 1..(k - 1) : v[j] # ":"

Unsigned(t) == IF t # <<>> /\ t[1] \in {"+", "-"} THEN Tail(t) ELSE t

IntegerText(t) ==
  /\ Unsigned(t) # <<>>
  /\ \A k \in 1..Len(Unsigned(t)) :
       Unsigned(t)[k] \in {"0", "1", "2", "3", "4", "5", "6", "7", "8", "9"}

DigitOf ==
  [ch \in {"0", "1", "2", "3", "4", "5", "6", "7", "8", "9"} |->
     CASE ch = "0" -> 0 [] ch = "1" -> 1 [] ch = "2" -> 2 [] ch = "3" -> 3
       [] ch = "4" -> 4 [] ch = "5" -> 5 [] ch = "6" -> 6 [] ch = "7" -> 7
       [] ch = "8" -> 8 [] ch = "9" -> 9]

RECURSIVE UnsignedValue(_)
UnsignedValue(ds) ==
  IF ds = <<>> THEN 0
  ELSE 10 * UnsignedValue(SubSeq(ds, 1, Len(ds) - 1)) + DigitOf[ds[Len(ds)]]

IntegerValue(t) ==
  IF t[1] = "-" THEN 0 - UnsignedValue(Unsigned(t)) ELSE UnsignedValue(Unsigned(t))

AtSourceFlag == mpc = "parse" /\ ai <= Len(argv) /\ argv[ai].name = "source"

C16_SetValidation ==
  [][AtSourceFlag =>
       LET v     == argv[ai].val
           path  == SubSeq(v, 1, FirstColon(v) - 1)
           depth == SubSeq(v, FirstColon(v) + 1, Len(v))
       IN IF ~HasColon(v)
          THEN ret'.err = ErrFormat /\ sources' = sources
          ELSE IF ~IntegerText(depth) \/ IntegerValue(depth) < 1
          THEN ret'.err = ErrInvalidDepth /\ sources' = sources
          ELSE /\ ret'.err = NoErr
               /\ SliceLen(sources') = SliceLen(sources) + 1
               /\ sources'[SliceLen(sources)] =
                    [Path |-> path, Depth |-> IntegerValue(depth)]
               /\ \A k \in DOMAIN sources : sources'[k] = sources[k]]_vars

(* Set has refused a value after it had accepted two, one of them with a
   signed depth, and the two are still the list. *)
C16_Witness ==
  /\ Exited /\ ret.err = ErrInvalidDepth
  /\ SliceLen(sources) = 2
  /\ \E k \in DOMAIN sources : sources[k].Depth = 2 /\ sources[k].Path = OneTxt

(***************************************************************************)
(* C17: when a source does not open, also after earlier sources have been  *)
(* loaded, RunPermutatorFast and CalculateOutputLines return an error that *)
(* holds the path and the cause; no task has been started, nothing has     *)
(* been emitted or written to the sink, and the process exits with 1.      *)
(***************************************************************************)
MissingSource == \E k \in DOMAIN sources : ~Exists(sources[k].Path)

FirstMissing ==
  CHOOSE k \in DOMAIN sources :
    ~Exists(sources[k].Path) /\ \A j \in 0..(k - 1) : Exists(sources[j].Path)

C17_OpenFailureAborts ==
  MissingSource =>
    /\ pc = <<>> /\ gi = 0 /\ wg = 0
    /\ emitted = <<>> /\ buf = <<>>
    /\ LinesOf(stdout) # <<>> => stdout = UsageText
    /\ (mpc \in {"counted", "failed"} \/ RanLoad) =>
         LET path == sources[FirstMissing].Path IN
         /\ ret.val = NilInt
         /\ Contains(ret.err, path)
         /\ Contains(ret.err, OpenPrefix \o path \o NoSuchFile)
         /\ stdout = <<>>
    /\ RanLoad => exitCode = 1 /\ stderr = ret.err \o <<NL>>

(* The engine's run has ended on a second source that does not open, the
   first one loaded. *)
C17_Witness ==
  /\ Exited /\ ~countOnly /\ MissingSource
  /\ allItems # <<>> /\ SliceLen(srcDepths) = 1
  /\ exitCode = 1

(* The count has ended on a source that does not open. *)
C17_CountReached == Exited /\ countOnly /\ MissingSource /\ exitCode = 1

(***************************************************************************)
(* C18: when a source opens but its scan stops on a read error, the run    *)
(* reports the error with the path, exits with a status other than 0, and  *)
(* neither the engine nor the counter goes on with the tokens read so far. *)
(***************************************************************************)
TornSourceRead ==
  \E k \in DOMAIN sources :
    /\ ScanErr(sources[k].Path)
    /\ \A j \in 0..(k - 1) : Exists(sources[j].Path)

C18_ReadErrorReported ==
  (RanLoad /\ TornSourceRead) =>
    /\ exitCode # 0
    /\ \E k \in DOMAIN sources :
         ScanErr(sources[k].Path) /\ Contains(stderr, sources[k].Path)
    /\ pc = <<>> /\ stdout = <<>>

(***************************************************************************)
(* C19: when no separator is given the separators are one empty string,    *)
(* and every sequence gives one line, its tokens one after the other with  *)
(* nothing between; when separators are given they are those strings in    *)
(* the order given, and no empty one is added.                             *)
(***************************************************************************)
SepsGiven ==
  LET given == SelectSeq(argv, LAMBDA a : a.name = "sep")
  IN [k \in 0..(Len(given) - 1) |-> given[k + 1].val]

RECURSIVE Concat(_, _)
Concat(q, k) ==
  IF k >= SliceLen(q) THEN <<>> ELSE allItems[q[k]] \o Concat(q, k + 1)

C19_DefaultSeparator ==
  PastChecks =>
    /\ seps = IF SliceLen(SepsGiven) = 0 THEN [k \in {0} |-> <<>>] ELSE SepsGiven
    /\ (SliceLen(SepsGiven) = 0 /\ gpc = "done") =>
         /\ \A id \in EmissionIds :
              /\ Em(id).line = prefix \o Concat(Em(id).path, 0) \o suffix
              /\ \A other \in EmissionIds :
                   Em(other).path = Em(id).path => other = id
         /\ Len(LinesOf(stdout)) = Cardinality({Em(id).path : id \in EmissionIds})

(* A run without -sep has ended after a line of two tokens. *)
C19_Witness ==
  /\ Exited /\ exitCode = 0 /\ gpc = "done" /\ SliceLen(SepsGiven) = 0
  /\ \E id \in EmissionIds : SliceLen(Em(id).path) = 2

(* A run with two -sep, the empty one first, has ended. *)
C19_GivenReached ==
  /\ Exited /\ gpc = "done" /\ SliceLen(SepsGiven) = 2
  /\ SepsGiven[0] = <<>> /\ SepsGiven[1] = <<"-">>

NonBlank(lines) == SelectSeq(lines, LAMBDA ln : ln # <<>>)

(* The tokens of the first k sources, each with the index of its source. *)
RECURSIVE TokensOf(_, _)
TokensOf(srcs, k) ==
  IF k = 0 THEN <<>>
  ELSE LET own == NonBlank(FileLines(srcs[k - 1].Path))
       IN TokensOf(srcs, k - 1)
            \o [j \in 1..Len(own) |-> [text |-> own[j], src |-> k - 1]]

(* The sources the load loop has finished. *)
Loaded == SliceLen(srcDepths)

ReadToEnd == \A k \in 0..(Loaded - 1) : ~ScanErr(sources[k].Path)

C21_DuplicateReached ==
  /\ mpc = "generate" /\ SliceLen(allItems) = 2
  /\ allItems[0] = allItems[1] /\ srcOfItem[0] = 0 /\ srcOfItem[1] = 1

(***************************************************************************)
(* The sequential permutator (lines 169-224), which RunPermutatorFast runs *)
(* when it is given an output callback.  dfs is followed through the used  *)
(* array and the calls of the callback, st = [used, out]; a call is logged *)
(* with its path, its separator, its string and the used array as it is    *)
(* at the call.  append(path, next) gives the callee a slice one longer    *)
(* and leaves the caller's slice as it is.                                 *)
(***************************************************************************)
(* Lines 201-206: the tokens of path from the j-th on. *)
RECURSIVE PermutatorJoin(_, _, _, _)
PermutatorJoin(p, path, sep, j) ==
  IF j >= SliceLen(path) THEN <<>>
  ELSE (IF j > 0 THEN sep ELSE <<>>) \o p.allItems[path[j]]
         \o PermutatorJoin(p, path, sep, j + 1)

(* Lines 199-207. *)
PermutatorLine(p, path, sep) ==
  p.prefix \o PermutatorJoin(p, path, sep, 0) \o p.suffix

(* Lines 198-213: the separators from the k-th on. *)
RECURSIVE PermutatorSeps(_, _, _, _, _)
PermutatorSeps(p, path, used, k, out) ==
  IF k >= SliceLen(p.seps) THEN out
  ELSE PermutatorSeps(p, path, used, k + 1,
                      Append(out, [path |-> path, sep |-> k,
                                   line |-> PermutatorLine(p, path, p.seps[k]),
                                   used |-> used]))

RECURSIVE PermutatorDfs(_, _, _, _)
RECURSIVE PermutatorLoop(_, _, _, _, _)

(* As PermutatorDfs, with lines for the sequences of full length only. *)
PermutatorDfs_FullOnly(p, path, maxDepth, st) ==
  LET depth  == SliceLen(path)
      last   == path[depth - 1]
      marked == IF p.noRepeats THEN [st.used EXCEPT ![last] = TRUE] ELSE st.used
      out    == IF depth = maxDepth
                THEN PermutatorSeps(p, path, marked, 0, st.out)
                ELSE st.out
      body   == IF depth = maxDepth
                THEN [used |-> marked, out |-> out]
                ELSE PermutatorLoop(p, path, maxDepth, 0,
                                    [used |-> marked, out |-> out])
  IN [body EXCEPT !.used = IF p.noRepeats THEN [@ EXCEPT ![last] = FALSE] ELSE @]

(* Lines 190-224. *)
PermutatorDfs(p, path, maxDepth, st) ==
  LET depth  == SliceLen(path)
      last   == path[depth - 1]
      marked == IF p.noRepeats THEN [st.used EXCEPT ![last] = TRUE] ELSE st.used
      out    == IF depth >= 1 /\ depth <= maxDepth
                THEN PermutatorSeps(p, path, marked, 0, st.out)
                ELSE st.out
      body   == IF depth = maxDepth
                THEN [used |-> marked, out |-> out]
                ELSE PermutatorLoop(p, path, maxDepth, 0,
                                    [used |-> marked, out |-> out])
  IN [body EXCEPT !.used = IF p.noRepeats THEN [@ EXCEPT ![last] = FALSE] ELSE @]

(* Lines 218-223: the extension loop from next on. *)
PermutatorLoop(p, path, maxDepth, next, st) ==
  IF next >= SliceLen(p.allItems) THEN st
  ELSE IF p.noRepeats /\ st.used[next]
  THEN PermutatorLoop(p, path, maxDepth, next + 1, st)
  ELSE PermutatorLoop(p, path, maxDepth, next + 1,
                      PermutatorDfs(p, SliceAppend(path, next), maxDepth, st))

(* Lines 181-182: generate is entered. *)
PermutatorEntered ==
  spc = "loop" /\ si = 0 /\ sused = MakeSlice(N, FALSE) /\ sout = <<>>

(* Lines 183-187: one turn of generate's loop, the dfs of start index si. *)
PermutatorStart ==
  /\ spc = "loop" /\ si < N
  /\ LET r == PermutatorDfs(ThisP, MakeSlice(1, si), srcDepths[srcOfItem[si]],
                            [used |-> sused, out |-> sout])
     IN sused' = r.used /\ sout' = r.out
  /\ si' = si + 1
  /\ UNCHANGED <<spc, config, sink, gen, tasks, mainv, poolv>>

(* Lines 188 and 263: the loop is over, generate and RunPermutatorFast return. *)
PermutatorReturn ==
  /\ spc = "loop" /\ si >= N
  /\ spc' = "done"
  /\ UNCHANGED <<si, sused, sout, config, sink, gen, tasks, mainv, poolv>>

(***************************************************************************)
(* A traversal on its own, step by step: either the sequential permutator, *)
(* or the task of one start index of the concurrent engine with every      *)
(* position of its dfs a state of its own (no other task runs, so a call   *)
(* of writeLine is one step).                                              *)
(***************************************************************************)
DfsInit ==
  /\ sources \in SlicesOver(SourceArg, 1, MaxSources)
  /\ seps \in SlicesOver(SepTexts, 1, MaxSeps)
  /\ prefix = <<>> /\ suffix = <<>>
  /\ noRepeats \in BOOLEAN
  /\ allItems = LoadSources(sources).allItems
  /\ srcOfItem = LoadSources(sources).srcOfItem
  /\ srcDepths = LoadSources(sources).srcDepths
  /\ N <= MaxTokens
  /\ buf = <<>> /\ stdout = <<>> /\ mu = NoTask
  /\ gpc = "none" /\ gi = 0 /\ wg = 0
  /\ pc = [t \in 0..(N - 1) |-> "idle"]
  /\ task = [t \in 0..(N - 1) |-> NotStarted]
  /\ emitted = [t \in 0..(N - 1) |-> <<>>]
  /\ argv = <<>> /\ ai = 1 /\ showHelp = FALSE /\ countOnly = FALSE
  /\ mpc = "none" /\ ret = NoRet /\ stderr = <<>> /\ exitCode = NoExit
  /\ PermutatorEntered \/ PermAtRest
  /\ PoolAtRest

(* Lines 155-159: the body of the task of one start index, up to the call
   of dfs. *)
CallDfs ==
  /\ spc = "none" /\ gpc = "none"
  /\ \A u \in DOMAIN pc : pc[u] = "idle"
  /\ \E t \in DOMAIN pc :
       /\ pc' = [pc EXCEPT ![t] = "dfs"]
       /\ task' = [task EXCEPT ![t] = TaskBody(ThisP, t)]
  /\ UNCHANGED <<config, sink, gen, emitted, mainv, permv, poolv>>

(* One step of dfs that is not a call of writeLine. *)
DfsMicro ==
  \E t \in DOMAIN pc :
    /\ pc[t] = "dfs" /\ task[t].at \notin {"write", "exit"}
    /\ task' = [task EXCEPT ![t] = DfsStep(ThisP, task[t])]
    /\ UNCHANGED <<config, sink, gen, pc, emitted, mainv, permv, poolv>>

(* Lines 127 and 99-104: the call of writeLine, from Lock to Unlock. *)
DfsWrite ==
  \E t \in DOMAIN pc :
    /\ pc[t] = "dfs" /\ task[t].at = "write"
    /\ LET w == BufWrite(BufWrite(Out, task[t].line), <<NL>>)
       IN buf' = w.buf /\ stdout' = w.under
    /\ emitted' = [emitted EXCEPT ![t] = Append(@, Emission(task[t]))]
    /\ task' = [task EXCEPT ![t] = DfsStep(ThisP, task[t])]
    /\ UNCHANGED <<config, mu, gen, pc, mainv, permv, poolv>>

DfsNext ==
  \/ PermutatorStart
  \/ PermutatorReturn
  \/ CallDfs
  \/ DfsMicro
  \/ DfsWrite

DfsSpec == DfsInit /\ [][DfsNext]_vars

(***************************************************************************)
(* C29: in the concurrent engine the path buffer of a task has the length  *)
(* MaxDepth of its start token's source; in every dfs call                 *)
(* 1 <= depth <= maxDepth, every path[j] that is read has j < depth, and   *)
(* path[depth] is written only when depth < maxDepth; no index into path,  *)
(* used or the token pool is out of range.  Checked at every position of   *)
(* every dfs call of a task.                                               *)
(***************************************************************************)
Running == {t \in DOMAIN pc : pc[t] = "dfs"}

C29_PathBounds ==
  \A t \in Running :
    LET l == task[t] IN
    /\ SliceLen(l.path) = srcDepths[srcOfItem[t]]
    /\ l.maxDepth = srcDepths[srcOfItem[t]]
    /\ SliceLen(l.used) = N
    /\ \A k \in 1..Len(l.stack) :
         /\ l.stack[k].depth = k
         /\ 1 <= l.stack[k].depth /\ l.stack[k].depth <= l.maxDepth
    /\ l.at # "exit" =>
         LET f == Top(l) IN
         /\ \A j \in 0..(f.depth - 1) :
              j \in DOMAIN l.path /\ l.path[j] \in DOMAIN allItems
         /\ l.at # "enter" =>
              f.last = l.path[f.depth - 1] /\ f.last \in DOMAIN l.used
         /\ l.at = "write" => f.sep \in DOMAIN seps
         /\ l.at = "loop" =>
              /\ f.depth < l.maxDepth /\ f.depth \in DOMAIN l.path
              /\ f.next \in 0..N
              /\ f.next < N => f.next \in DOMAIN l.used

(* A call of depth 2 under maxDepth 3 is about to write the last slot of   *)
(* its path buffer with the last index of the pool.                        *)
C29_Witness ==
  \E t \in Running :
    /\ task[t].at = "loop" /\ task[t].maxDepth = 3
    /\ Top(task[t]).depth = 2 /\ Top(task[t]).next = N - 1
    /\ ~noRepeats

(***************************************************************************)
(* C23: with no-repeat on, at every position of a traversal after the mark *)
(* on entry used[k] is true exactly for the indices k of the current path  *)
(* prefix; before the mark, and so after the return of a call, it is true  *)
(* exactly for the caller's prefix; every entry is false when a task ends  *)
(* and, in the sequential permutator, whenever generate's loop is between  *)
(* two start indices.  With no-repeat off no entry is ever true.           *)
(***************************************************************************)
Marks(path, depth) ==
  [k \in 0..(N - 1) |-> noRepeats /\ \E j \in 0..(depth - 1) : path[j] = k]

C23_UsedMarks ==
  /\ \A t \in Running :
       LET l == task[t] IN
       l.used = CASE l.at = "exit"  -> Marks(l.path, 0)
                  [] l.at = "enter" -> Marks(l.path, Top(l).depth - 1)
                  [] OTHER          -> Marks(l.path, Top(l).depth)
  /\ spc # "none" =>
       /\ sused = Marks(<<>>, 0)
       /\ \A k \in 1..Len(sout) :
            sout[k].used = Marks(sout[k].path, SliceLen(sout[k].path))

(* Under no-repeat a call of depth 2 is back in its loop after a call of   *)
(* depth 3 has returned.                                                   *)
C23_Witness ==
  \E t \in Running :
    /\ noRepeats /\ task[t].at = "loop" /\ task[t].maxDepth = 3
    /\ Top(task[t]).depth = 2 /\ Top(task[t]).next > 0
    /\ Len(emitted[t]) >= 3

(* The sequential permutator is between its second and its third start    *)
(* index, under no-repeat, after sequences of two tokens.                  *)
C23_SequentialReached ==
  /\ noRepeats /\ spc = "loop" /\ si = 2 /\ N = 3
  /\ \E k \in 1..Len(sout) : SliceLen(sout[k].path) = 2

(***************************************************************************)
(* RunPermutatorFast called twice on the same sources and options: first   *)
(* with an output callback, which runs the sequential permutator (lines    *)
(* 251-263), then without one, which runs the concurrent engine (lines     *)
(* 266-267).  The files do not change, so both calls load the same pool.   *)
(***************************************************************************)
PairInit ==
  /\ sources \in SlicesOver(SourceArg, 1, MaxSources)
  /\ seps \in SlicesOver(SepTexts, 1, MaxSeps)
  /\ \E af \in Affixes : prefix = af.prefix /\ suffix = af.suffix
  /\ noRepeats \in BOOLEAN
  /\ allItems = LoadSources(sources).allItems
  /\ srcOfItem = LoadSources(sources).srcOfItem
  /\ srcDepths = LoadSources(sources).srcDepths
  /\ N <= MaxTokens
  /\ TotalLines(ThisP, 0, 0, MaxEmit) <= MaxEmit
  /\ buf = <<>> /\ stdout = <<>> /\ mu = NoTask
  /\ gpc = "none" /\ gi = 0 /\ wg = 0
  /\ pc = [t \in 0..(N - 1) |-> "idle"]
  /\ task = [t \in 0..(N - 1) |-> NotStarted]
  /\ emitted = [t \in 0..(N - 1) |-> <<>>]
  /\ argv = <<>> /\ ai = 1 /\ showHelp = FALSE /\ countOnly = FALSE
  /\ mpc = "none" /\ ret = NoRet /\ stderr = <<>> /\ exitCode = NoExit
  /\ PermutatorEntered
  /\ PoolAtRest

(* Lines 266-267 and 147-148 of the second call: Generate is entered. *)
CallGenerate ==
  /\ spc = "done" /\ gpc = "none"
  /\ gpc' = "loop"
  /\ UNCHANGED <<config, sink, gi, wg, tasks, mainv, permv, poolv>>

PairNext ==
  \/ PermutatorStart
  \/ PermutatorReturn
  \/ CallGenerate
  \/ Spawn
  \/ WgWait
  \/ Flush
  \/ TaskStart
  \/ Lock
  \/ WriteString
  \/ WriteByte
  \/ Unlock

PairSpec == PairInit /\ [][PairNext]_vars

(***************************************************************************)
(* C22: the writeLine calls of one task follow depth-first pre-order: the  *)
(* lines of a sequence, one per separator in the order of the separators,  *)
(* come before the lines of its extensions, and extensions come in         *)
(* increasing pool index; under every interleaving the lines in the output *)
(* stream are the tasks' lines merged, each task's own lines in its call   *)
(* order; the callback calls of the sequential permutator follow the same  *)
(* order with start index i wholly before start index i + 1.               *)
(***************************************************************************)
(* Path a comes before path b in depth-first pre-order. *)
PathBefore(a, b) ==
  \/ /\ SliceLen(a) < SliceLen(b)
     /\ \A j \in DOMAIN a : a[j] = b[j]
  \/ \E j \in DOMAIN a \cap DOMAIN b :
       a[j] < b[j] /\ \A h \in 0..(j - 1) : a[h] = b[h]

EmittedBefore(e, f) ==
  \/ PathBefore(e.path, f.path)
  \/ e.path = f.path /\ e.sep < f.sep

InPreOrder(log) ==
  \A k \in 1..(Len(log) - 1) : EmittedBefore(log[k], log[k + 1])

(* The lines from the k-th on are the tasks' terminated lines from pos on,
   merged with each task's lines in its own order. *)
RECURSIVE Merged(_, _, _)
Merged(lines, k, pos) ==
  IF k > Len(lines)
  THEN \A t \in Tasks : pos[t] = Len(Terminated(t))
  ELSE \E t \in Tasks :
         /\ pos[t] < Len(Terminated(t))
         /\ Terminated(t)[pos[t] + 1].line = lines[k]
         /\ Merged(lines, k + 1, [pos EXCEPT ![t] = @ + 1])

C22_EmissionOrder ==
  /\ \A t \in Tasks :
       /\ InPreOrder(emitted[t])
       /\ \A k \in 1..Len(emitted[t]) : emitted[t][k].path[0] = t
  /\ Merged(LinesOf(Stream), 1, [t \in Tasks |-> 0])
  /\ InPreOrder(sout)
  /\ \A k \in 1..(Len(sout) - 1) : sout[k].path[0] <= sout[k + 1].path[0]

(* A finished run in which a line of the last start index stands in the    *)
(* stream before the lines of start index 0, a task with two separators    *)
(* and extensions among them.                                              *)
C22_Witness ==
  /\ Done /\ spc = "done" /\ N >= 2 /\ SliceLen(seps) = 2
  /\ Len(emitted[0]) >= 4
  /\ LinesOf(stdout)[1] = emitted[N - 1][1].line
  /\ \A k \in 1..Len(emitted[0]) : emitted[0][k].line # emitted[N - 1][1].line

(* The same run can also end with the lines in the order of the start      *)
(* indices: the order across tasks is not fixed.                           *)
C22_InOrderReached ==
  /\ Done /\ spc = "done" /\ N >= 2 /\ SliceLen(seps) = 2
  /\ Len(emitted[0]) >= 4
  /\ LinesOf(stdout) = LinesFrom(sout, 1)

(***************************************************************************)
(* C26: on the same pool, separators, prefix, suffix and no-repeat flag    *)
(* the concurrent engine writes, under every interleaving of its tasks,    *)
(* the same multiset of lines as the sequential permutator hands to its    *)
(* callback.                                                               *)
(***************************************************************************)
C26_EngineEquivalence ==
  (spc = "done" /\ Done) =>
    /\ buf = <<>>
    /\ stdout = Stream
    /\ SplitLines(stdout, <<>>).rest = <<>>
    /\ SeqBag(LinesOf(stdout)) = SeqBag(LinesFrom(sout, 1))

(* Both engines have finished, under no-repeat, with sequences of two      *)
(* tokens and the concurrent engine's lines in another order than the      *)
(* callback's.                                                             *)
C26_Witness ==
  /\ spc = "done" /\ Done /\ noRepeats
  /\ Len(sout) >= 4
  /\ \E k \in 1..Len(sout) : SliceLen(sout[k].path) = 2
  /\ LinesOf(stdout) # LinesFrom(sout, 1)

(***************************************************************************)
(* C24: in the concurrent engine no step ever changes the token pool, the  *)
(* source-of-token map, the depths, the separators, the prefix, the suffix *)
(* or the no-repeat flag; the path buffer and the used array of a task     *)
(* change only in a step of that task, and to values that depend on that   *)
(* task's own buffers and the pool alone; a step of a task writes nothing  *)
(* but its own state, the Output Sink (writer, mutex, builders) and, when  *)
(* it ends, the WaitGroup counter that joins the tasks.                    *)
(***************************************************************************)
(* The tasks that take a step. *)
Stepping == {t \in Tasks : pc[t] # "idle" /\ pc'[t] # pc[t]}

MaxPoolEmit == 4

NoBuilder == -1

PoolInit ==
  /\ sources \in SlicesOver(SourceArg, 1, MaxSources)
  /\ seps \in SlicesOver(SepTexts, 1, MaxSeps)
  /\ prefix = <<>> /\ suffix = <<>>
  /\ noRepeats \in BOOLEAN
  /\ allItems = LoadSources(sources).allItems
  /\ srcOfItem = LoadSources(sources).srcOfItem
  /\ srcDepths = LoadSources(sources).srcDepths
  /\ N <= MaxTokens
  /\ TotalLines(ThisP, 0, 0, MaxPoolEmit) <= MaxPoolEmit
  /\ buf = <<>> /\ stdout = <<>> /\ mu = NoTask
  /\ gpc = "loop" /\ gi = 0 /\ wg = 0
  /\ pc = [t \in 0..(N - 1) |-> "idle"]
  /\ task = [t \in 0..(N - 1) |-> NotStarted]
  /\ emitted = [t \in 0..(N - 1) |-> <<>>]
  /\ argv = <<>> /\ ai = 1 /\ showHelp = FALSE /\ countOnly = FALSE
  /\ mpc = "none" /\ ret = NoRet /\ stderr = <<>> /\ exitCode = NoExit
  /\ PermAtRest
  /\ builders = <<>> /\ free = {}
  /\ held = [t \in 0..(N - 1) |-> NoBuilder]

(* The task has run on its own up to l: before the Get of its next line,
   or at its end, where the deferred wg.Done (line 153) runs. *)
ArriveAtGet(t, l) ==
  /\ task' = [task EXCEPT ![t] = [l EXCEPT !.line = <<>>]]
  /\ IF l.at = "exit"
     THEN pc' = [pc EXCEPT ![t] = "done"] /\ wg' = wg - 1
     ELSE pc' = [pc EXCEPT ![t] = "get"] /\ UNCHANGED wg

(* Lines 152-159 and 107-115: the goroutine starts and runs up to its first
   Get. *)
PoolTaskStart ==
  \E t \in DOMAIN pc :
    /\ pc[t] = "ready"
    /\ ArriveAtGet(t, RunLocal(ThisP, TaskBody(ThisP, t)))
    /\ UNCHANGED <<config, sink, gpc, gi, emitted, mainv, permv, poolv>>

(* Line 116: p.pool.Get(). *)
GetBuilder ==
  \E t \in DOMAIN pc :
    /\ pc[t] = "get"
    /\ \E b \in free \cup {SliceLen(builders)} :
         /\ held' = [held EXCEPT ![t] = b]
         /\ free' = free \ {b}
         /\ builders' = IF b = SliceLen(builders)
                        THEN SliceAppend(builders, <<>>)
                        ELSE builders
    /\ pc' = [pc EXCEPT ![t] = "reset"]
    /\ UNCHANGED <<config, sink, gen, task, emitted, mainv, permv>>

(* As BuilderReset, for a Reset that keeps the text. *)
BuilderReset_Keep(text) == text

(* strings.Builder.Reset. *)
BuilderReset(text) == <<>>

(* Line 117. *)
ResetBuilder ==
  \E t \in DOMAIN pc :
    /\ pc[t] = "reset"
    /\ builders' = [builders EXCEPT ![held[t]] = BuilderReset(@)]
    /\ pc' = [pc EXCEPT ![t] = "build"]
    /\ UNCHANGED <<config, sink, gen, task, emitted, mainv, permv, free, held>>

(* Lines 119-125: the WriteString calls append the line to the builder. *)
WriteBuilder ==
  \E t \in DOMAIN pc :
    /\ pc[t] = "build"
    /\ builders' = [builders EXCEPT ![held[t]] =
                      @ \o BuildLine(ThisP, task[t].path, Top(task[t]).depth,
                                     seps[Top(task[t]).sep])]
    /\ pc' = [pc EXCEPT ![t] = "string"]
    /\ UNCHANGED <<config, sink, gen, task, emitted, mainv, permv, free, held>>

(* Line 127: builder.String() is the argument of the call of writeLine. *)
BuilderString ==
  \E t \in DOMAIN pc :
    /\ pc[t] = "string"
    /\ LET l == [task[t] EXCEPT !.line = builders[held[t]]]
       IN /\ task' = [task EXCEPT ![t] = l]
          /\ emitted' = [emitted EXCEPT ![t] = Append(@, Emission(l))]
    /\ pc' = [pc EXCEPT ![t] = "lock"]
    /\ UNCHANGED <<config, sink, gen, mainv, permv, poolv>>

(* Line 103: writeLine returns. *)
UnlockReturn ==
  \E t \in DOMAIN pc :
    /\ pc[t] = "unlock" /\ held[t] # NoBuilder
    /\ mu' = NoTask
    /\ pc' = [pc EXCEPT ![t] = "put"]
    /\ UNCHANGED <<config, buf, stdout, gen, task, emitted, mainv, permv, poolv>>

(* Line 128: p.pool.Put(builder), and the task's own work up to its next
   Get or its end. *)
PutBuilder ==
  \E t \in DOMAIN pc :
    /\ pc[t] = "put"
    /\ free' = free \cup {held[t]}
    /\ held' = [held EXCEPT ![t] = NoBuilder]
    /\ ArriveAtGet(t, RunLocal(ThisP, DfsStep(ThisP, task[t])))
    /\ UNCHANGED <<config, sink, gpc, gi, emitted, mainv, permv, builders>>

PoolNext ==
  \/ Spawn
  \/ WgWait
  \/ Flush
  \/ PoolTaskStart
  \/ GetBuilder
  \/ ResetBuilder
  \/ WriteBuilder
  \/ BuilderString
  \/ Lock
  \/ WriteString
  \/ WriteByte
  \/ UnlockReturn
  \/ PutBuilder

PoolSpec == PoolInit /\ [][PoolNext]_vars

(***************************************************************************)
(* C25: a builder taken from the pool is empty after its Reset and before  *)
(* anything is written to it; from its Get to its Put it is held by one    *)
(* task and lies not in the pool; it is put back only after writeLine has  *)
(* returned, so while its string is on its way into the buffered writer    *)
(* the builder is still held and still holds that string; no emission      *)
(* carries text left over from an earlier one.                             *)
(***************************************************************************)
(* Where a task stands between its Get and its Put. *)
Holding == {"reset", "build", "string", "lock", "wstr", "wbyte", "unlock", "put"}

(* Where a task stands inside its call of writeLine. *)
Writing == {"lock", "wstr", "wbyte", "unlock"}

(* The line dfs is building or has built at the position of task t. *)
OwnLine(t) ==
  BuildLine(ThisP, task[t].path, Top(task[t]).depth, seps[Top(task[t]).sep])

C25_BuilderDiscipline ==
  /\ \A t \in Tasks :
       /\ held[t] # NoBuilder <=> pc[t] \in Holding
       /\ held[t] # NoBuilder =>
            /\ held[t] \in DOMAIN builders
            /\ held[t] \notin free
            /\ \A u \in Tasks : u # t => held[u] # held[t]
       /\ pc[t] = "build" => builders[held[t]] = <<>>
       /\ pc[t] \in {"string", "put"} \cup Writing =>
            builders[held[t]] = OwnLine(t)
       /\ pc[t] \in Writing =>
            /\ task[t].line = OwnLine(t)
            /\ emitted[t][Len(emitted[t])].line = OwnLine(t)
  /\ free \subseteq DOMAIN builders
  /\ \A id \in EmissionIds :
       Em(id).line = BuildLine(ThisP, Em(id).path, SliceLen(Em(id).path),
                               seps[Em(id).sep])

(* A task has taken a builder that still holds the line of an earlier      *)
(* emission and has not reset it yet, while another task is writing its    *)
(* string into the buffered writer and holds another builder.              *)
C25_Witness ==
  \E t, u \in Tasks :
    /\ t # u
    /\ pc[t] = "reset" /\ builders[held[t]] # <<>>
    /\ pc[u] = "wbyte" /\ builders[held[u]] # builders[held[t]]
    /\ Len(emitted[t]) >= 1

(***************************************************************************)
(* The concurrent engine under fair scheduling: a goroutine that can run   *)
(* is run in the end, and a mutex that is free is handed to one of the     *)
(* tasks waiting for it, so a step that stays possible is taken.           *)
(***************************************************************************)
MaxFairEmit == 7

FairInit ==
  /\ sources \in SlicesOver(SourceArg, 1, MaxSources)
  /\ seps \in SlicesOver(SepTexts, 1, MaxSeps)
  /\ prefix = <<>> /\ suffix = <<>>
  /\ noRepeats \in BOOLEAN
  /\ allItems = LoadSources(sources).allItems
  /\ srcOfItem = LoadSources(sources).srcOfItem
  /\ srcDepths = LoadSources(sources).srcDepths
  /\ N <= MaxTokens
  /\ TotalLines(ThisP, 0, 0, MaxFairEmit) <= MaxFairEmit
  /\ buf = <<>> /\ stdout = <<>> /\ mu = NoTask
  /\ gpc = "loop" /\ gi = 0 /\ wg = 0
  /\ pc = [t \in 0..(N - 1) |-> "idle"]
  /\ task = [t \in 0..(N - 1) |-> NotStarted]
  /\ emitted = [t \in 0..(N - 1) |-> <<>>]
  /\ argv = <<>> /\ ai = 1 /\ showHelp = FALSE /\ countOnly = FALSE
  /\ mpc = "none" /\ ret = NoRet /\ stderr = <<>> /\ exitCode = NoExit
  /\ PermAtRest /\ PoolAtRest

FairSpec == FairInit /\ [][Next]_vars /\ WF_vars(Next)

(***************************************************************************)
(* C27: the dfs calls of a task are never nested deeper than the MaxDepth  *)
(* of its start token's source, and under fair scheduling every run comes  *)
(* to the state where all tasks have finished and Generate has flushed and *)
(* returned: no task waits for the mutex forever and no run stops before.  *)
(***************************************************************************)
RecursionBounded ==
  \A t \in Tasks :
    /\ Len(task[t].stack) <= task[t].maxDepth
    /\ pc[t] \notin {"idle", "ready"} => task[t].maxDepth = StartDepth(t)

AllJoined == Done /\ wg = 0 /\ mu = NoTask /\ \A t \in Tasks : pc[t] = "done"

C27_Termination == []RecursionBounded /\ <>AllJoined

(* Two tasks wait for the mutex while a third, three dfs calls deep under  *)
(* maxDepth 3, holds it.                                                   *)
C27_Witness ==
  \E t, u, v \in Tasks :
    /\ t # u /\ pc[t] = "lock" /\ pc[u] = "lock"
    /\ pc[v] = "wstr" /\ mu = v
    /\ Len(task[v].stack) = 3 /\ task[v].maxDepth = 3

(***************************************************************************)
(* perms.go: CountPermutationsFromFiles (lines 147-204), and RunPermutator *)
(* (lines 67-99), which loads the sources with the loop of                 *)
(* RunPermutatorFast and runs the sequential permutator (lines 101-145,    *)
(* the code of permute.go 180-224) with the caller's callback.             *)
(***************************************************************************)
(* Lines 174-177: how many tokens source srcIdx has given. *)
SrcCount(ld, srcIdx) ==
  Cardinality({i \in DOMAIN ld.srcOfItem : ld.srcOfItem[i] = srcIdx})

(* Lines 190-193 and 197-200: subtotal *= factor, depth times. *)
RECURSIVE Subtotal(_, _, _, _, _)
Subtotal(count, depth, nr, i, subtotal) ==
  IF i >= depth THEN subtotal
  ELSE Subtotal(count, depth, nr, i + 1,
                subtotal * (IF nr THEN count - i ELSE count))

(* Lines 180-202: the sources from srcIdx on. *)
RECURSIVE CountSources(_, _, _, _, _)
CountSources(ld, nsrc, nr, srcIdx, total) ==
  IF srcIdx >= nsrc THEN total
  ELSE LET count == SrcCount(ld, srcIdx)
           depth == ld.srcDepths[srcIdx]
       IN IF count = 0 \/ (nr /\ count < depth)
          THEN CountSources(ld, nsrc, nr, srcIdx + 1, total)
          ELSE CountSources(ld, nsrc, nr, srcIdx + 1,
                            total + Subtotal(count, depth, nr, 0, 1))

CountPermutationsFromFiles(srcs, nr) ==
  LET ld == LoadSources(srcs)
  IN IF ld.err # NoErr THEN [val |-> 0, err |-> ld.err]
     ELSE [val |-> CountSources(ld, SliceLen(srcs), nr, 0, 0), err |-> NoErr]

(* CountPermutationsFromFiles and then RunPermutator, with a callback, are *)
(* called on the same sources, one separator and either no-repeat setting. *)
PermsInit ==
  /\ sources \in SlicesOver(CountSourceArg, 1, MaxSources)
  /\ seps \in SlicesOver(SepTexts, 1, 1)
  /\ prefix = <<>> /\ suffix = <<>>
  /\ noRepeats \in BOOLEAN
  /\ LET ld == LoadSources(sources)
     IN \/ ld.err # NoErr
        \/ /\ SliceLen(ld.allItems) <= MaxTokens
           /\ TotalLines([allItems |-> ld.allItems, srcOfItem |-> ld.srcOfItem,
                          srcDepths |-> ld.srcDepths, seps |-> seps,
                          prefix |-> prefix, suffix |-> suffix,
                          noRepeats |-> noRepeats], 0, 0, MaxEmit) <= MaxEmit
  /\ argv = <<>> /\ ai = 1 /\ showHelp = FALSE /\ countOnly = FALSE
  /\ mpc = "perms"
  /\ AtRest

(* perms.go 148: the call of CountPermutationsFromFiles and its return. *)
CountPermutations ==
  /\ mpc = "perms"
  /\ ret' = CountPermutationsFromFiles(sources, noRepeats)
  /\ mpc' = "run"
  /\ UNCHANGED <<config, sink, gen, tasks>>
  /\ UNCHANGED <<permv, poolv, argv, ai, showHelp, countOnly, stderr, exitCode>>

(* perms.go 67-93: the load loop of NewPermutatorFromFiles; generate is
   entered, or the error of the first source that does not open returned. *)
NewPermutatorFromFiles ==
  /\ mpc = "run"
  /\ LET ld == LoadSources(sources)
     IN /\ allItems' = ld.allItems
        /\ srcOfItem' = ld.srcOfItem
        /\ srcDepths' = ld.srcDepths
        /\ IF ld.err # NoErr
           THEN /\ mpc' = "failed"
                /\ UNCHANGED permv
           ELSE /\ mpc' = "generate"
                /\ spc' = "loop" /\ si' = 0 /\ sout' = <<>>
                /\ sused' = MakeSlice(SliceLen(ld.allItems), FALSE)
  /\ UNCHANGED <<sources, seps, prefix, suffix, noRepeats, sink, gen, tasks>>
  /\ UNCHANGED <<poolv, argv, ai, showHelp, countOnly, ret, stderr, exitCode>>

PermsNext ==
  \/ CountPermutations
  \/ NewPermutatorFromFiles
  \/ PermutatorStart
  \/ PermutatorReturn

PermsSpec == PermsInit /\ [][PermsNext]_vars

(***************************************************************************)
(* C28: for every set of sources and either value of the no-repeat flag    *)
(* the result of CountPermutationsFromFiles equals the number of sequences *)
(* the permutator of perms.go generates for those sources, which is the    *)
(* number of its callback calls with a single separator.                   *)
(***************************************************************************)
C28_CountEqualsGenerated ==
  (mpc = "generate" /\ spc = "done" /\ ret.err = NoErr) => ret.val = Len(sout)

(* What CountPermutationsFromFiles returns: per source with n > 0 tokens   *)
(* and depth d, n^d or, under no-repeat and n >= d, n!/(n-d)!, summed over *)
(* the sources; an error for a source that does not open, as RunPermutator. *)
RECURSIVE PerSource(_, _)
PerSource(ld, k) ==
  IF k = 0 THEN 0
  ELSE LET n == SrcCount(ld, k - 1)
           d == ld.srcDepths[k - 1]
       IN PerSource(ld, k - 1)
            + (IF n = 0 THEN 0
               ELSE IF noRepeats THEN (IF n < d THEN 0 ELSE FallingProduct(n, d))
               ELSE Power(n, d))

CountPermutationsOfTheCode ==
  /\ (mpc = "generate" /\ ret.err = NoErr) =>
       ret.val = PerSource(LoadSources(sources), SliceLen(sources))
  /\ mpc \in {"generate", "failed"} => (ret.err # NoErr <=> mpc = "failed")

(* The permutator has made six callback calls for a source of two tokens   *)
(* at depth 2 and the count returned is four.                              *)
C28_DifferenceReached ==
  /\ mpc = "generate" /\ spc = "done" /\ ~noRepeats
  /\ SliceLen(sources) = 1 /\ N = 2 /\ srcDepths[0] = 2
  /\ Len(sout) = 6 /\ ret.val = 4

====
